---- MODULE Spec2Model ----
(***************************************************************************)
(* Model of the animated "wrapped" video pipeline of github-wrapped:       *)
(* AnimatedVideoGenerator.create_animated_video (clip timeline, narration  *)
(* placement, music looping and ducking, audio composition, encode), the  *)
(* per-frame renderers (make_frame) of the seven clip builders and the two *)
(* easing functions.                                                       *)
(*                                                                         *)
(* Time is counted in frames: one tick is 1/FPS second, the instants the   *)
(* encoder requests frames at.  Every duration and offset of the source    *)
(* (0.3 s, 0.5 s, 2.0 s, 5.0 s, ...) is a whole number of ticks at 30 fps. *)
(***************************************************************************)
EXTENDS Integers, Sequences, FiniteSets, TLC

FPS == 30

\* n tenths of a second, in ticks (0.3 s = Tenths(3) = 9 ticks).
Tenths(n) == (n * FPS) \div 10

\* n whole seconds, in ticks.
Secs(n) == n * FPS

(***************************************************************************)
(* Bounds of the model.                                                    *)
(***************************************************************************)
\* Longest narration file, in seconds.
MaxNarrSecs == 6

\* Longest music file, in seconds.
MaxMusicSecs == 60

\* Largest count in a statistics record.
MaxCount == 1234

RECURSIVE SumDurations(_)
SumDurations(cs) ==
    IF cs = <<>> THEN 0 ELSE Head(cs).duration + SumDurations(Tail(cs))

(***************************************************************************)
(* Statistics records (RepoStats), as far as the clip builders read them.  *)
(***************************************************************************)
RepoStats(commits, prs, releases) ==
    [total_commits |-> commits, total_prs |-> prs, total_releases |-> releases]

Counts == {0, 1, MaxCount}

StatsSet == { RepoStats(c, p, r) : c \in Counts, p \in Counts, r \in Counts }

SampleStats == RepoStats(MaxCount, 1, 0)

(***************************************************************************)
(* Clip builders: each returns a video clip of a fixed default duration,   *)
(* wrapped with its fades.                                                 *)
(***************************************************************************)
VideoClip(kind, number, duration, fade_in, fade_out) ==
    [type |-> "video", kind |-> kind, number |-> number,
     duration |-> duration, fadein |-> fade_in, fadeout |-> fade_out]

CreateIntroClip(st) == VideoClip("intro", 0, Secs(5), 0, Tenths(5))

CreateCountupClip(kind, number) ==
    VideoClip(kind, number, Secs(5), Tenths(3), Tenths(5))

CreateLeaderboardClip(st) ==
    VideoClip("leaderboard", 0, Secs(7), Tenths(3), Tenths(5))

CreateTimesClip(st) == VideoClip("time-of-day", 0, Secs(6), Tenths(3), Tenths(5))

CreateLinesClip(st) == VideoClip("lines-of-code", 0, Secs(6), Tenths(3), Tenths(5))

CreateChartClip(st) == VideoClip("activity-chart", 0, Secs(7), Tenths(3), Tenths(5))

CreateOutroClip(st) == VideoClip("outro", 0, Secs(6), Tenths(3), Tenths(10))

\* Faulty variant: a timeline that leaves the releases clip out of a
\* repository without releases.
ClipPlan_SkipsEmptyReleases(st) ==
    << CreateIntroClip(st),
       CreateCountupClip("commits", st.total_commits),
       CreateCountupClip("pull-requests", st.total_prs),
       CreateLeaderboardClip(st),
       CreateTimesClip(st),
       CreateLinesClip(st) >>
    \o (IF st.total_releases = 0
        THEN <<>>
        ELSE << CreateCountupClip("releases", st.total_releases) >>)
    \o << CreateChartClip(st), CreateOutroClip(st) >>

\* The nine clips.append(...) statements of create_animated_video, in order.
ClipPlan(st) ==
    << CreateIntroClip(st),
       CreateCountupClip("commits", st.total_commits),
       CreateCountupClip("pull-requests", st.total_prs),
       CreateLeaderboardClip(st),
       CreateTimesClip(st),
       CreateLinesClip(st),
       CreateCountupClip("releases", st.total_releases),
       CreateChartClip(st),
       CreateOutroClip(st) >>

\* Number of clips.append(...) statements.
NumClips == Len(ClipPlan(SampleStats))

(***************************************************************************)
(* State of one run of create_animated_video.                              *)
(***************************************************************************)
VARIABLES
    pc,            \* position in create_animated_video
    stats,         \* self.stats, the read-only statistics record
    clips,         \* the list of clips built so far
    final_video,   \* the concatenated video (NoVideo before concatenation)
    audio_paths,   \* the entries of audio_paths the zip loop has consumed
    narr_secs,     \* decoded length, in seconds, of the narration files
    current_time,  \* running start offset of the narration loop
    audio_clips,   \* the list of tracks handed to CompositeAudioClip
    music_path,    \* the music_path argument as the music block found it
    warnings,      \* the "Warning: Could not load ..." lines printed
    artifact,      \* what write_videofile wrote, and the returned path
    rclip,         \* the clip whose make_frame the encoder is calling
    rt,            \* the instant, in ticks, of the frame last requested
    rframe,        \* the frame make_frame returned for it
    ease_t,        \* the argument t of the easing call under way
    ease_ret,      \* what the easing function returned for it
    gradient,      \* the gradient array each clip's make_frame closes over
    gpc,           \* position in the generate command and the generators it calls
    opts,          \* the options of the command and the narration client's state
    events,        \* the pipeline steps completed, in order of completion
    slides,        \* the list of slides generate_all_slides returned
    tts,           \* the outcome of each text-to-speech call made so far
    synth          \* audio_paths of generate_audio_for_slides, under construction

assembly_vars == << pc, stats, clips, final_video, audio_paths, narr_secs,
                    current_time, audio_clips, music_path, warnings, artifact >>

render_vars == << rclip, rt, rframe, ease_t, ease_ret, gradient >>

pipeline_vars == << gpc, opts, events, slides, tts, synth >>

vars == << assembly_vars, render_vars, pipeline_vars >>

NoVideo == [type |-> "none"]

NoArtifact == [written |-> FALSE]

Raised == [type |-> "exception"]

\* A video's audio attribute: None, or a CompositeAudioClip of tracks.
NoAudio == [attached |-> FALSE, tracks |-> <<>>]

CompositeAudioClip(tracks) == [attached |-> TRUE, tracks |-> tracks]

(***************************************************************************)
(* The moviepy operations create_animated_video calls.                     *)
(***************************************************************************)
\* concatenate_videoclips(clips) of moviepy.editor: it reads c.duration and
\* c.size of every clip before it builds anything.  A video clip has both.
\* An AudioFileClip has no size attribute, so the call raises AttributeError
\* when it is handed audio clips, as line 162 does to loop the music.
ConcatenateVideoclips(cs) ==
    IF \E i \in 1..Len(cs) : cs[i].type # "video"
    THEN Raised
    ELSE [type |-> "video", duration |-> SumDurations(cs), audio |-> NoAudio]

\* AudioFileClip(path) for a file that decodes to `duration` ticks.
AudioFileClip(kind, pos, duration) ==
    [type |-> "audio", kind |-> kind, pos |-> pos, start |-> 0,
     duration |-> duration, gain |-> 100, fadein |-> 0, fadeout |-> 0]

SetStart(c, t) == [c EXCEPT !.start = t]

Subclip(c, t_start, t_end) == [c EXCEPT !.duration = t_end - t_start]

\* volumex(clip, factor), the factor given in tenths; gain is in percent.
Volumex(c, tenths) == [c EXCEPT !.gain = (@ * tenths) \div 10]

AudioFadein(c, d) == [c EXCEPT !.fadein = d]

AudioFadeout(c, d) == [c EXCEPT !.fadeout = d]

\* The instant the last of `tracks` ends.
RECURSIVE AudioEnd(_)
AudioEnd(tracks) ==
    IF tracks = <<>>
    THEN 0
    ELSE LET e == Head(tracks).start + Head(tracks).duration
             r == AudioEnd(Tail(tracks))
         IN  IF e > r THEN e ELSE r

\* Faulty variant: a set_audio that stretches the video to the end of its
\* audio, as the static pipeline does with a slide and its narration.
SetAudio_ExtendsVideo(video, audio) ==
    [video EXCEPT !.audio = audio,
                  !.duration = IF AudioEnd(audio.tracks) > @
                               THEN AudioEnd(audio.tracks) ELSE @]

\* video.set_audio(audio): the audio is attached as it is; the video's own
\* duration is not touched.
SetAudio(video, audio) == [video EXCEPT !.audio = audio]

(***************************************************************************)
(* Inputs.  Line 147 takes an entry of audio_paths only when it is truthy  *)
(* and names an existing file: "absent" is an entry that is None, "" or a  *)
(* path with no file behind it.  "corrupt" names a file AudioFileClip      *)
(* raises on, "ok" a file that decodes.  music_path likewise (line 156),   *)
(* with the decoded length of the file.                                    *)
(***************************************************************************)
PathKinds == {"absent", "corrupt", "ok"}

NarrSecs == {2, MaxNarrSecs}

MusicPaths ==
    { [kind |-> k, duration |-> 0] : k \in {"absent", "corrupt"} }
    \cup { [kind |-> "ok", duration |-> Secs(s)] : s \in {20, 26, 52, MaxMusicSecs} }

NoMusicPath == [kind |-> "unread", duration |-> 0]

\* No frame has been requested.
NoClip == [kind |-> "none"]

NoFrame == [kind |-> "none"]

NotRequested == 0 - 1

\* No easing call is under way.
NoArg == [num |-> 0, den |-> 0]

NoReturn == [fn |-> "none"]

NoEasing ==
    /\ ease_t = NoArg
    /\ ease_ret = NoReturn

\* The array _create_gradient_frame returns: the background and nothing else.
Clean == [painted |-> FALSE]

\* The gradient arrays of a set of clips just built.
Gradients(cs) == [c \in cs |-> Clean]

\* The generate command is not running.
NoOptions == [command |-> "none"]

PipelineIdle ==
    /\ gpc = "idle"
    /\ opts = NoOptions
    /\ events = <<>>
    /\ slides = <<>>
    /\ tts = <<>>
    /\ synth = <<>>

Idle ==
    /\ rclip = NoClip
    /\ rt = NotRequested
    /\ rframe = NoFrame
    /\ NoEasing
    /\ gradient = Gradients({})

\* The state at the entry of create_animated_video, for statistics record st.
Entry(st) ==
    /\ pc = "build"
    /\ stats = st
    /\ clips = <<>>
    /\ final_video = NoVideo
    /\ audio_paths = <<>>
    /\ current_time = 0
    /\ audio_clips = <<>>
    /\ music_path = NoMusicPath
    /\ warnings = <<>>
    /\ artifact = NoArtifact

Init ==
    /\ PipelineIdle
    /\ Entry(SampleStats)
    /\ narr_secs \in NarrSecs
    /\ Idle

(***************************************************************************)
(* Lines 92-134: the nine clips.append(...) statements, one per step.      *)
(***************************************************************************)
BuildClip ==
    /\ pc = "build"
    /\ UNCHANGED << render_vars, pipeline_vars >>
    /\ Len(clips) < NumClips
    /\ clips' = Append(clips, ClipPlan(stats)[Len(clips) + 1])
    /\ UNCHANGED << pc, stats, final_video, audio_paths, narr_secs, current_time,
                    audio_clips, music_path, warnings, artifact >>

(***************************************************************************)
(* Lines 136-141: final_video = concatenate_videoclips(clips), and the     *)
(* empty audio_clips list.                                                 *)
(***************************************************************************)
Concatenate ==
    /\ pc = "build"
    /\ UNCHANGED << render_vars, pipeline_vars >>
    /\ Len(clips) = NumClips
    /\ final_video' = ConcatenateVideoclips(clips)
    /\ audio_clips' = <<>>
    /\ current_time' = 0
    /\ pc' = "narration"
    /\ UNCHANGED << stats, clips, audio_paths, narr_secs, music_path, warnings,
                    artifact >>

(***************************************************************************)
(* Lines 146-153: one iteration of the loop over zip(clips, audio_paths).  *)
(***************************************************************************)
NarrationLeadIn == Tenths(5)

\* Faulty variant: the narration starts with its clip, without the lead-in.
NarrationTracks_NoLeadIn(tracks, kind, i, now, duration) ==
    IF kind = "ok"
    THEN Append(tracks, SetStart(AudioFileClip("narration", i, duration), now))
    ELSE tracks

\* The body's effect on audio_clips for entry `kind` at clip index i (from 0).
NarrationTracks(tracks, kind, i, now, duration) ==
    IF kind = "ok"
    THEN Append(tracks,
                SetStart(AudioFileClip("narration", i, duration),
                         now + NarrationLeadIn))
    ELSE tracks

\* Faulty variant: the offset advances by the static pipeline's uniform slide
\* duration (Config.SLIDE_DURATION) instead of the clip's own.
NextOffset_SlideDuration(now, clip, kind) == now + Secs(5)

\* Faulty variant: the offset advances only past a narration that was loaded.
NextOffset_OnlyWhenLoaded(now, clip, kind) ==
    IF kind = "ok" THEN now + clip.duration ELSE now

\* Line 153: current_time += clip.duration, whatever became of the entry.
NextOffset(now, clip, kind) == now + clip.duration

NarrationWarnings(ws, kind, i) ==
    IF kind = "corrupt" THEN Append(ws, [what |-> "audio", pos |-> i]) ELSE ws

NarrationStep ==
    /\ pc = "narration"
    /\ UNCHANGED << render_vars, pipeline_vars >>
    /\ Len(audio_paths) < Len(clips)
    /\ \E kind \in PathKinds :
         LET i == Len(audio_paths) IN
           /\ audio_paths' = Append(audio_paths, kind)
           /\ audio_clips' = NarrationTracks(audio_clips, kind, i, current_time,
                                             Secs(narr_secs))
           /\ warnings' = NarrationWarnings(warnings, kind, i)
           /\ current_time' = NextOffset(current_time, clips[i + 1], kind)
    /\ UNCHANGED << pc, stats, clips, final_video, narr_secs, music_path, artifact >>

\* The zip is exhausted: audio_paths has no further entry, or all nine clips
\* were visited.  With audio_paths None or empty the loop is skipped whole.
NarrationEnd ==
    /\ pc = "narration"
    /\ UNCHANGED << render_vars, pipeline_vars >>
    /\ pc' = "music"
    /\ UNCHANGED << stats, clips, final_video, audio_paths, narr_secs, current_time,
                    audio_clips, music_path, warnings, artifact >>

(***************************************************************************)
(* Lines 156-177: the background music block.                              *)
(***************************************************************************)
\* Line 161: int(final_video.duration / music.duration) + 1.
LoopsNeeded(video_duration, music_duration) ==
    (video_duration \div music_duration) + 1

Repeat(c, n) == [i \in 1..n |-> c]

\* Lines 158-164: the music clip cut to the video's length, or Raised when a
\* call inside the try block raises.
LoadMusic(mp, video_duration) ==
    IF mp.kind = "corrupt"
    THEN Raised
    ELSE LET music == AudioFileClip("music", 0, mp.duration) IN
         IF music.duration < video_duration
         THEN LET looped == ConcatenateVideoclips(
                                Repeat(music, LoopsNeeded(video_duration,
                                                          music.duration)))
              IN  IF looped = Raised
                  THEN Raised
                  ELSE Subclip(looped, 0, video_duration)
         ELSE Subclip(music, 0, video_duration)

MusicVolumeTenths == 3

DuckTenths == 5

\* Faulty variant: the music is ducked whether or not narration was loaded.
DuckMusic_Always(music, tracks) ==
    Volumex(AudioFadeout(AudioFadein(Volumex(music, MusicVolumeTenths),
                                     Secs(2)), Secs(3)), DuckTenths)

\* Faulty variant: the music is ducked when narration paths were supplied,
\* whether or not any of them was loaded.
DuckMusic_ByPathsSupplied(music, tracks) ==
    LET quiet == AudioFadeout(AudioFadein(Volumex(music, MusicVolumeTenths),
                                          Secs(2)), Secs(3))
    IN  IF audio_paths # <<>> THEN Volumex(quiet, DuckTenths) ELSE quiet

\* Lines 167-173: volume, fades, and the duck when narration tracks exist.
DuckMusic(music, tracks) ==
    LET quiet == AudioFadeout(AudioFadein(Volumex(music, MusicVolumeTenths),
                                          Secs(2)), Secs(3))
    IN  IF tracks # <<>> THEN Volumex(quiet, DuckTenths) ELSE quiet

\* Line 175: audio_clips.insert(0, music).
InsertFirst(tracks, music) == << music >> \o tracks

AddMusic ==
    /\ pc = "music"
    /\ UNCHANGED << render_vars, pipeline_vars >>
    /\ \E mp \in MusicPaths :
         /\ music_path' = mp
         /\ IF mp.kind = "absent"
            THEN UNCHANGED << audio_clips, warnings >>
            ELSE LET music == LoadMusic(mp, final_video.duration) IN
                 IF music = Raised
                 THEN /\ warnings' = Append(warnings, [what |-> "music", pos |-> 0])
                      /\ UNCHANGED audio_clips
                 ELSE /\ audio_clips' = InsertFirst(audio_clips,
                                                    DuckMusic(music, audio_clips))
                      /\ UNCHANGED warnings
    /\ pc' = "combine"
    /\ UNCHANGED << stats, clips, final_video, audio_paths, narr_secs, current_time,
                    artifact >>

(***************************************************************************)
(* Lines 179-182: attach the composite audio when there is any track.      *)
(***************************************************************************)
\* Faulty variant: a composite is attached even when there is no track.
AttachAudio_Always(video, tracks) == SetAudio(video, CompositeAudioClip(tracks))

AttachAudio(video, tracks) ==
    IF tracks # <<>> THEN SetAudio(video, CompositeAudioClip(tracks)) ELSE video

CombineAudio ==
    /\ pc = "combine"
    /\ UNCHANGED << render_vars, pipeline_vars >>
    /\ final_video' = AttachAudio(final_video, audio_clips)
    /\ pc' = "write"
    /\ UNCHANGED << stats, clips, audio_paths, narr_secs, current_time, audio_clips,
                    music_path, warnings, artifact >>

(***************************************************************************)
(* Lines 184-205: write_videofile, cleanup, return output_path.  An encode *)
(* failure is not caught: it propagates and nothing is returned.           *)
(***************************************************************************)
WriteVideofile ==
    /\ pc = "write"
    /\ UNCHANGED << render_vars, pipeline_vars >>
    /\ artifact' = [written |-> TRUE, duration |-> final_video.duration,
                    audio |-> final_video.audio]
    /\ pc' = "done"
    /\ UNCHANGED << stats, clips, final_video, audio_paths, narr_secs, current_time,
                    audio_clips, music_path, warnings >>

EncodeFails ==
    /\ pc = "write"
    /\ UNCHANGED << render_vars, pipeline_vars >>
    /\ pc' = "failed"
    /\ UNCHANGED << stats, clips, final_video, audio_paths, narr_secs, current_time,
                    audio_clips, music_path, warnings, artifact >>

Next ==
    \/ BuildClip
    \/ Concatenate
    \/ NarrationStep
    \/ NarrationEnd
    \/ AddMusic
    \/ CombineAudio
    \/ WriteVideofile
    \/ EncodeFails

Spec == Init /\ [][Next]_vars

(***************************************************************************)
(* The clip timeline alone (lines 92-138), over every statistics record of *)
(* StatsSet.                                                               *)
(***************************************************************************)
InitBuild ==
    /\ PipelineIdle
    /\ \E st \in StatsSet : Entry(st)
    /\ narr_secs = 2
    /\ Idle

NextBuild ==
    \/ BuildClip
    \/ Concatenate

SpecBuild == InitBuild /\ [][NextBuild]_vars

(***************************************************************************)
(* The frame renderer of the count-up clip: make_frame of                  *)
(* _create_countup_clip (lines 297-340).  A frame is recorded by the       *)
(* elements drawn on it and their text; pixel positions (centring, the     *)
(* subtitle's slide-in, the bounce) are layout and are not recorded.       *)
(***************************************************************************)
\* _ease_out_cubic(n / d) = 1 - (1 - n/d)^3, as a numerator over d^3.
EaseOutCubic(n, d) == (d * d * d) - ((d - n) * (d - n) * (d - n))

\* Faulty variant: the elastic formula is evaluated at the boundaries too.
EaseOutElastic_NoBoundaryCase(n, d) ==
    [branch |-> "formula", t_num |-> n, t_den |-> d]

\* _ease_out_elastic(n / d), lines 77-81: t itself at t = 0 and t = 1, else
\* pow(2, -10 * t) * sin((t * 10 - 0.75) * (2 * pi) / 3) + 1, which is kept
\* as the formula's argument (no draw call uses its value).
EaseOutElastic(n, d) ==
    IF n = 0 \/ n = d
    THEN [branch |-> "boundary", num |-> n, den |-> d]
    ELSE [branch |-> "formula", t_num |-> n, t_den |-> d]

Min(a, b) == IF a < b THEN a ELSE b

\* Faulty variant: the progress is not clamped to 1.0 with min.
CountProgress_Unclamped(t) == t - Tenths(3)

\* Line 316: count_progress = min((t - 0.3) / 2.0, 1.0), as a numerator over
\* the 2.0-second window, for t > 0.3.
CountProgress(t) == Min(t - Tenths(3), Secs(2))

\* Lines 317-318: int(number * eased).
CurrentNumber(number, t) ==
    (number * EaseOutCubic(CountProgress(t), Secs(2)))
        \div (Secs(2) * Secs(2) * Secs(2))

\* Python computes number * eased in floating point and truncates.  That is
\* the exact floor computed here unless the exact product is a whole number
\* strictly inside the window, where the float can fall just below it.  The
\* targets of the model are those for which this never happens on the frame
\* grid.
ExactOnGrid(number) ==
    \/ number = 0
    \/ \A j \in 1..(Secs(2) - 1) :
           (number * EaseOutCubic(Secs(2) - j, Secs(2)))
               % (Secs(2) * Secs(2) * Secs(2)) # 0

DigitChars == << "0", "1", "2", "3", "4", "5", "6", "7", "8", "9" >>

RECURSIVE Digits(_)
Digits(n) ==
    IF n < 10 THEN DigitChars[n + 1]
    ELSE Digits(n \div 10) \o DigitChars[(n % 10) + 1]

\* Faulty variant: the numeral is formatted without the ',' option.
FormatThousands_NoSeparator(n) == Digits(n)

\* Line 320: f"{current_number:,}" for a number >= 0.
RECURSIVE FormatThousands(_)
FormatThousands(n) ==
    IF n < 1000
    THEN Digits(n)
    ELSE FormatThousands(n \div 1000) \o ","
         \o DigitChars[((n % 1000) \div 100) + 1]
         \o DigitChars[((n % 100) \div 10) + 1]
         \o DigitChars[(n % 10) + 1]

\* An element that is not drawn on the frame.
Absent == [drawn |-> FALSE]

Drawn(text, value) == [drawn |-> TRUE, text |-> text, value |-> value]

\* Faulty variant: the subtitle appears together with the numeral, at t > 0.3.
MakeFrameCountup_SubtitleWithNumeral(clip, t) ==
    [kind |-> "countup",
     title |-> Drawn(clip.title, 0),
     numeral |-> IF t > Tenths(3)
                 THEN Drawn(FormatThousands(CurrentNumber(clip.number, t)),
                            CurrentNumber(clip.number, t))
                 ELSE Absent,
     subtitle |-> IF t > Tenths(3) /\ clip.subtitle # ""
                  THEN Drawn(clip.subtitle, 0)
                  ELSE Absent]

\* Faulty variant: the numeral is gated with t >= 0.3 instead of t > 0.3.
MakeFrameCountup_GateInclusive(clip, t) ==
    [kind |-> "countup",
     title |-> Drawn(clip.title, 0),
     numeral |-> IF t >= Tenths(3)
                 THEN Drawn(FormatThousands(CurrentNumber(clip.number, t)),
                            CurrentNumber(clip.number, t))
                 ELSE Absent,
     subtitle |-> IF t > Tenths(25) /\ clip.subtitle # ""
                  THEN Drawn(clip.subtitle, 0)
                  ELSE Absent]

\* make_frame(t) of the count-up clip.
MakeFrameCountup(clip, t) ==
    [kind |-> "countup",
     title |-> Drawn(clip.title, 0),
     numeral |-> IF t > Tenths(3)
                 THEN Drawn(FormatThousands(CurrentNumber(clip.number, t)),
                            CurrentNumber(clip.number, t))
                 ELSE Absent,
     subtitle |-> IF t > Tenths(25) /\ clip.subtitle # ""
                  THEN Drawn(clip.subtitle, 0)
                  ELSE Absent]

\* The clip a call _create_countup_clip(title, number, subtitle, ...) returns,
\* with the parameters its make_frame closes over.
CountupClip(title, number, subtitle) ==
    [kind |-> "countup", title |-> title, number |-> number,
     subtitle |-> subtitle, duration |-> Secs(5)]

RenderTargets == { n \in {0, 1, 57, MaxCount} : ExactOnGrid(n) }

CountupClips ==
    { CountupClip(title, number, subtitle) :
        title \in {"TOTAL COMMITS", "PULL REQUESTS MERGED", "RELEASES SHIPPED"},
        number \in RenderTargets,
        subtitle \in {"", "Biggest: Add dark mode"} }

(***************************************************************************)
(* Statistics records as the frame renderers read them (the fields of the  *)
(* RepoStats dataclass that make_frame of some clip uses).  repo_name is   *)
(* kept as its "/"-separated segments.                                     *)
(***************************************************************************)
MonthFull == << "January", "February", "March", "April", "May", "June",
                "July", "August", "September", "October", "November",
                "December" >>

\* A mapping from month names to commit counts (a dict: absent keys allowed).
MonthMap(pairs) ==
    [ m \in { p[1] : p \in pairs } |-> (CHOOSE p \in pairs : p[1] = m)[2] ]

Contributor(name, commits) == [name |-> name, commits |-> commits]

\* Seven contributors, in an order that is sorted neither by name nor by count.
ContributorPool ==
    << Contributor("mia", 12), Contributor("adam", 40), Contributor("zoe", 5),
       Contributor("li", 40), Contributor("bo", 1), Contributor("eve", 7),
       Contributor("dan", 9) >>

SampleRepo ==
    [repo_name |-> << "VolksRat71", "github-wrapped" >>,
     year |-> 2024,
     total_commits |-> MaxCount,
     total_prs |-> 57,
     total_releases |-> 3,
     lines_added |-> 1234,
     lines_deleted |-> 57,
     top_contributors |-> SubSeq(ContributorPool, 1, 3),
     commits_by_month |-> MonthMap({ << "January", 10 >>, << "March", 5 >> }),
     busiest_day |-> "Monday",
     busiest_month |-> "March",
     peak_hour |-> 14,
     weekend_commits |-> 57]

\* str.upper() on the names the sample records hold.
Upper(str) ==
    CASE str = "github-wrapped" -> "GITHUB-WRAPPED"
      [] str = "wrapped" -> "WRAPPED"
      [] str = "Monday" -> "MONDAY"
      [] str = "Saturday" -> "SATURDAY"
      [] str = "March" -> "MARCH"
      [] str = "October" -> "OCTOBER"

(***************************************************************************)
(* The frame renderer of the intro clip: make_frame of _create_intro_clip  *)
(* (lines 223-278).                                                        *)
(***************************************************************************)
\* Lines 229-232: year_size = int(120 + 80 * eased), eased over the first
\* 1.5 seconds.  80 * eased is a whole number on the frame grid only where
\* eased is 0 or 1, so the truncation is that of the exact value.
YearSize(t) ==
    120 + (80 * EaseOutCubic(Min(t, Tenths(15)), Tenths(15)))
              \div (Tenths(15) * Tenths(15) * Tenths(15))

\* make_frame(t) of the intro clip; the year's value is its font size.
MakeFrameIntro(clip, t) ==
    [kind |-> "intro",
     year |-> Drawn(Digits(clip.stats.year), YearSize(t)),
     name |-> IF t > Secs(1) THEN Drawn(Upper(clip.repo_name), 0) ELSE Absent,
     wrapped |-> IF t > Tenths(15) THEN Drawn("WRAPPED", 0) ELSE Absent]

\* Line 218: repo_name.split("/")[-1] if "/" in repo_name else repo_name.
IntroClip(st) ==
    [kind |-> "intro", stats |-> st,
     repo_name |-> st.repo_name[Len(st.repo_name)],
     duration |-> Secs(5)]

(***************************************************************************)
(* The frame renderer of the leaderboard clip: make_frame of               *)
(* _create_leaderboard_clip (lines 353-401).                               *)
(***************************************************************************)
\* Faulty variant: the list of contributors is not cut to five.
TopFive_All(contributors) == contributors

\* Line 350: self.stats.top_contributors[:5].
TopFive(contributors) == SubSeq(contributors, 1, Min(Len(contributors), 5))

\* Line 372, and the fallback of line 387 for a row past the list.
Medal(i) ==
    IF i < 5 THEN << "1st", "2nd", "3rd", "4th", "5th" >>[i + 1]
    ELSE Digits(i + 1) \o "th"

\* Faulty variant: every row is revealed at the first row's instant.
RowStart_NoStagger(i) == Tenths(8)

\* Faulty variant: the rows are staggered by two seconds instead of half a
\* second, so that the fifth row would start after the clip has ended.
RowStart_TwoSecondStagger(i) == Tenths(8) + (i * Secs(2))

\* Line 378: row_start = 0.8 + (i * 0.5), for the zero-based row index i.
RowStart(i) == Tenths(8) + (i * Tenths(5))

\* make_frame(t) of the leaderboard clip; a row's value is its commit count.
MakeFrameLeaderboard(clip, t) ==
    [kind |-> "leaderboard",
     title |-> Drawn("TOP CONTRIBUTORS", 0),
     rows |-> [ k \in 1..Len(clip.contributors) |->
                  IF t > RowStart(k - 1)
                  THEN [drawn |-> TRUE,
                        text |-> Medal(k - 1) \o "  " \o clip.contributors[k].name,
                        name |-> clip.contributors[k].name,
                        value |-> clip.contributors[k].commits]
                  ELSE Absent ]]

LeaderboardClip(st) ==
    [kind |-> "leaderboard", stats |-> st,
     contributors |-> TopFive(st.top_contributors),
     duration |-> Secs(7)]

(***************************************************************************)
(* The frame renderer of the "when you coded" clip: make_frame of          *)
(* _create_times_clip (lines 412-462).                                     *)
(***************************************************************************)
\* Lines 430-435: (label, value, start_time) of the four items.
TimesItems(st) ==
    << [label |-> "Busiest Day", value |-> Upper(st.busiest_day),
        start_time |-> Tenths(5)],
       [label |-> "Busiest Month", value |-> Upper(st.busiest_month),
        start_time |-> Tenths(12)],
       [label |-> "Peak Hour", value |-> Digits(st.peak_hour) \o ":00",
        start_time |-> Tenths(19)],
       [label |-> "Weekend Commits", value |-> Digits(st.weekend_commits),
        start_time |-> Tenths(26)] >>

\* make_frame(t) of the "when you coded" clip.
MakeFrameTimes(clip, t) ==
    [kind |-> "times",
     title |-> Drawn("WHEN YOU CODED", 0),
     items |-> [ k \in 1..Len(TimesItems(clip.stats)) |->
                   LET item == TimesItems(clip.stats)[k] IN
                   IF t > item.start_time
                   THEN [drawn |-> TRUE, label |-> item.label, text |-> item.value]
                   ELSE Absent ]]

TimesClip(st) == [kind |-> "times", stats |-> st, duration |-> Secs(6)]

(***************************************************************************)
(* The frame renderer of the lines-of-code clip: make_frame of             *)
(* _create_lines_clip (lines 473-539).                                     *)
(***************************************************************************)
Green == << 29, 185, 84 >>

Red == << 231, 76, 60 >>

\* f"{n:,}" for any integer n.
FormatSigned(n) ==
    IF n < 0 THEN "-" \o FormatThousands(0 - n) ELSE FormatThousands(n)

\* Lines 493-495 and 508-510: int(number * eased) over a 1.5-second window
\* that starts at start_time.
LinesCount(number, t, start_time) ==
    (number * EaseOutCubic(Min(t - start_time, Tenths(15)), Tenths(15)))
        \div (Tenths(15) * Tenths(15) * Tenths(15))

\* Faulty variant: the "+" is written for a strictly positive net change only.
NetText_PlusWhenPositive(net) ==
    IF net > 0 THEN "+" \o FormatSigned(net) ELSE FormatSigned(net)

\* Line 527: net_text = f"+{net:,}" if net >= 0 else f"{net:,}".
NetText(net) == IF net >= 0 THEN "+" \o FormatSigned(net) ELSE FormatSigned(net)

\* Line 528.
NetColor(net) == IF net >= 0 THEN Green ELSE Red

\* make_frame(t) of the lines-of-code clip.
MakeFrameLines(clip, t) ==
    LET st == clip.stats
        net == st.lines_added - st.lines_deleted
    IN  [kind |-> "lines",
         title |-> Drawn("LINES OF CODE", 0),
         added |-> IF t > Tenths(5)
                   THEN [drawn |-> TRUE,
                         text |-> "+" \o FormatThousands(
                                     LinesCount(st.lines_added, t, Tenths(5))),
                         value |-> LinesCount(st.lines_added, t, Tenths(5)),
                         color |-> Green,
                         label |-> "lines added"]
                   ELSE Absent,
         deleted |-> IF t > Tenths(15)
                     THEN [drawn |-> TRUE,
                           text |-> "-" \o FormatThousands(
                                       LinesCount(st.lines_deleted, t, Tenths(15))),
                           value |-> LinesCount(st.lines_deleted, t, Tenths(15)),
                           color |-> Red,
                           label |-> "lines deleted"]
                     ELSE Absent,
         net |-> IF t > Secs(3)
                 THEN [drawn |-> TRUE,
                       text |-> NetText(net),
                       value |-> net,
                       color |-> NetColor(net),
                       label |-> "Net change"]
                 ELSE Absent]

LinesClip(st) == [kind |-> "lines", stats |-> st, duration |-> Secs(6)]

(***************************************************************************)
(* The frame renderer of the outro clip: make_frame of _create_outro_clip  *)
(* (lines 626-687).  The elastic easing of the year (line 653) is computed *)
(* and not used by any draw call.                                          *)
(***************************************************************************)
\* Lines 661-665: the three summary lines.
OutroStats(st) ==
    << FormatThousands(st.total_commits) \o " commits",
       Digits(st.total_prs) \o " PRs merged",
       Digits(st.total_releases) \o " releases" >>

\* Line 668: stat_start = 1.8 + (i * 0.4), for the zero-based line index i.
StatStart(i) == Tenths(18) + (i * Tenths(4))

\* make_frame(t) of the outro clip.
MakeFrameOutro(clip, t) ==
    [kind |-> "outro",
     wrap |-> IF t > Tenths(3) THEN Drawn("THAT'S A WRAP", 0) ELSE Absent,
     year |-> IF t > Tenths(8) THEN Drawn(Digits(clip.stats.year), 0) ELSE Absent,
     stats |-> [ k \in 1..Len(OutroStats(clip.stats)) |->
                   IF t > StatStart(k - 1)
                   THEN Drawn(OutroStats(clip.stats)[k], 0)
                   ELSE Absent ],
     footer |-> IF t > Tenths(35)
                THEN Drawn("Here's to shipping more in "
                               \o Digits(clip.stats.year + 1), 0)
                ELSE Absent]

OutroClip(st) == [kind |-> "outro", stats |-> st, duration |-> Secs(6)]

(***************************************************************************)
(* Double-precision arithmetic of line 592, int((val / max_val) * c), for  *)
(* whole numbers 0 < val < max_val and 0 < c < 1024: the quotient is       *)
(* rounded to a 53-bit mantissa (round half to even), the product with c   *)
(* is rounded again, and int() truncates.  A mantissa is a sequence of     *)
(* bits, most significant first; the product is formed in 10-bit limbs.    *)
(***************************************************************************)
MantissaBits == 53

LimbBits == 10

\* 2^k modulo m, by squaring.
RECURSIVE Pow2Mod(_, _)
Pow2Mod(k, m) ==
    IF k = 0 THEN 1 % m
    ELSE IF k % 2 = 0
         THEN (Pow2Mod(k \div 2, m) * Pow2Mod(k \div 2, m)) % m
         ELSE (2 * Pow2Mod(k - 1, m)) % m

\* 2^k for a small k.
RECURSIVE Pow2(_)
Pow2(k) == IF k = 0 THEN 1 ELSE 2 * Pow2(k - 1)

\* bits + 1; the result is one bit longer when every bit was 1.
Increment(bits) ==
    IF \A k \in 1..Len(bits) : bits[k] = 1
    THEN << 1 >> \o [ k \in 1..Len(bits) |-> 0 ]
    ELSE LET j == CHOOSE j \in 1..Len(bits) :
                      /\ bits[j] = 0
                      /\ \A i \in (j + 1)..Len(bits) : bits[i] = 1
         IN  [ k \in 1..Len(bits) |->
                 IF k < j THEN bits[k] ELSE IF k = j THEN 1 ELSE 0 ]

\* The number e of doublings that bring v (0 < v) up to at least m.
RECURSIVE LeadShift(_, _)
LeadShift(v, m) == IF v >= m THEN 0 ELSE 1 + LeadShift(2 * v, m)

\* The double nearest v / m, as mantissa bits M and exponent e: M * 2^-(52 + e).
FloatDiv(v, m) ==
    LET e == LeadShift(v, m)
        r == (v * Pow2(e)) - m
        bits == [ k \in 1..MantissaBits |->
                    IF k = 1 THEN 1
                    ELSE IF 2 * ((r * Pow2Mod(k - 2, m)) % m) >= m THEN 1 ELSE 0 ]
        rem == (r * Pow2Mod(MantissaBits - 1, m)) % m
        up == \/ 2 * rem > m
              \/ (2 * rem = m /\ bits[MantissaBits] = 1)
        inc == Increment(bits)
    IN  IF ~up THEN [bits |-> bits, e |-> e]
        ELSE IF Len(inc) > MantissaBits
             THEN [bits |-> SubSeq(inc, 1, MantissaBits), e |-> e - 1]
             ELSE [bits |-> inc, e |-> e]

\* The whole number a short bit sequence writes.
RECURSIVE ToInt(_)
ToInt(bits) ==
    IF bits = <<>> THEN 0
    ELSE (2 * ToInt(SubSeq(bits, 1, Len(bits) - 1))) + bits[Len(bits)]

\* The limbs of a mantissa, least significant first.
Limbs(bits) ==
    LET n == ((Len(bits) + LimbBits) - 1) \div LimbBits
        pad == (n * LimbBits) - Len(bits)
        padded == [ k \in 1..(n * LimbBits) |->
                      IF k <= pad THEN 0 ELSE bits[k - pad] ]
    IN  [ j \in 1..n |->
            ToInt(SubSeq(padded, ((n - j) * LimbBits) + 1, ((n - j) + 1) * LimbBits)) ]

\* limbs * c + carry, least significant limb first, one limb longer.
RECURSIVE MulLimbs(_, _, _)
MulLimbs(limbs, c, carry) ==
    IF limbs = <<>>
    THEN << carry >>
    ELSE LET x == (Head(limbs) * c) + carry
         IN  << x % Pow2(LimbBits) >>
             \o MulLimbs(Tail(limbs), c, x \div Pow2(LimbBits))

\* The bits of a whole number > 0 given by its limbs, without leading zeros.
LimbsToBits(limbs) ==
    LET n == Len(limbs)
        all == [ k \in 1..(n * LimbBits) |->
                   (limbs[n - ((k - 1) \div LimbBits)]
                        \div Pow2((LimbBits - 1) - ((k - 1) % LimbBits))) % 2 ]
        first == CHOOSE k \in 1..(n * LimbBits) :
                     /\ all[k] = 1
                     /\ \A i \in 1..(k - 1) : all[i] = 0
    IN  SubSeq(all, first, n * LimbBits)

\* The exact product of a mantissa and a small whole number c.
MulSmall(bits, c) == LimbsToBits(MulLimbs(Limbs(bits), c, 0))

\* Rounds an exact product to 53 bits, half to even; drop is the number of
\* low bits given up.
RoundMantissa(bits) ==
    IF Len(bits) <= MantissaBits
    THEN [bits |-> bits, drop |-> 0]
    ELSE LET top == SubSeq(bits, 1, MantissaBits)
             rest == SubSeq(bits, MantissaBits + 1, Len(bits))
             up == /\ rest[1] = 1
                   /\ \/ \E k \in 2..Len(rest) : rest[k] = 1
                      \/ top[MantissaBits] = 1
             inc == Increment(top)
             drop == Len(bits) - MantissaBits
         IN  IF ~up THEN [bits |-> top, drop |-> drop]
             ELSE IF Len(inc) > MantissaBits
                  THEN [bits |-> SubSeq(inc, 1, MantissaBits), drop |-> drop + 1]
                  ELSE [bits |-> inc, drop |-> drop]

\* int((v / m) * c * 1.0) as Python computes it, for 0 <= v <= m and m > 0.
FloatTrunc(v, m, c) ==
    IF v = 0 THEN 0
    ELSE IF v = m THEN c
    ELSE LET q == FloatDiv(v, m)
             prod == RoundMantissa(MulSmall(q.bits, c))
             keep == Len(prod.bits) - (((MantissaBits - 1) + q.e) - prod.drop)
         IN  IF keep > 0 THEN ToInt(SubSeq(prod.bits, 1, keep)) ELSE 0

(***************************************************************************)
(* The frame renderer of the bar-chart clip: make_frame of                 *)
(* _create_chart_clip (lines 550-615).  A bar starts every 0.15 s, which   *)
(* is 4.5 ticks: the chart's offsets and progress are kept in half ticks.  *)
(***************************************************************************)
Months == << "Jan", "Feb", "Mar", "Apr", "May", "Jun", "Jul", "Aug", "Sep",
             "Oct", "Nov", "Dec" >>

\* Line 576.
ChartHeight == 800

\* Line 553: [commits_by_month.get(m, 0) for m in month_full].
Values(st) ==
    [ i \in 1..Len(MonthFull) |->
        IF MonthFull[i] \in DOMAIN st.commits_by_month
        THEN st.commits_by_month[MonthFull[i]]
        ELSE 0 ]

\* Line 554: max(values) if values else 1.
MaxVal(values) ==
    IF values = <<>> THEN 1
    ELSE CHOOSE v \in { values[i] : i \in 1..Len(values) } :
             \A i \in 1..Len(values) : values[i] <= v

\* Line 586: bar_start = 0.5 + (i * 0.15), in half ticks, for the zero-based
\* month index i.
BarStart(i) == (2 * Tenths(5)) + (i * ((2 * 15 * FPS) \div 100))

\* Line 589: progress = min((t - bar_start) / 1.0, 1.0), as a numerator over
\* the 1.0-second growth in half ticks.
BarProgress(t, i) == Min((2 * t) - BarStart(i), 2 * Secs(1))

\* Faulty variant: a chart without a positive maximum draws full bars.
BarHeight_FullWhenFlat(val, max_val, n) ==
    IF max_val > 0
    THEN IF n = 2 * Secs(1)
         THEN FloatTrunc(val, max_val, ChartHeight - 80)
         ELSE (val * EaseOutCubic(n, 2 * Secs(1)))
                  \div (max_val * ((2 * Secs(1) * 2 * Secs(1) * 2 * Secs(1))
                                       \div (ChartHeight - 80)))
    ELSE ChartHeight - 80

\* Line 592: bar_height = int((val / max_val) * (chart_height - 80) * eased)
\* if max_val > 0 else 0, for progress n over 2 * Secs(1) half ticks.  Once
\* the growth is complete eased is exactly 1.0 and the height is the float
\* product truncated; during the growth it is the exact product truncated
\* (the records of the model are those for which the two agree there).
BarHeight(val, max_val, n) ==
    IF max_val > 0
    THEN IF n = 2 * Secs(1)
         THEN FloatTrunc(val, max_val, ChartHeight - 80)
         ELSE (val * EaseOutCubic(n, 2 * Secs(1)))
                  \div (max_val * ((2 * Secs(1) * 2 * Secs(1) * 2 * Secs(1))
                                       \div (ChartHeight - 80)))
    ELSE 0

\* Line 609: progress > 0.8.  progress is the float (t - bar_start) / 1.0; at
\* the frame where it is exactly 0.8 the float is 0.8 too, except for the
\* seventh bar (bar_start = 1.4, t = 2.2), where it is 0.8000000000000003.
LabelProgress(n, i) ==
    \/ 10 * n > 8 * 2 * Secs(1)
    \/ (10 * n = 8 * 2 * Secs(1) /\ i = 6)

\* make_frame(t) of the bar-chart clip.
MakeFrameChart(clip, t) ==
    [kind |-> "chart",
     title |-> Drawn("COMMITS BY MONTH", 0),
     bars |-> [ k \in 1..Len(clip.values) |->
                  IF 2 * t > BarStart(k - 1)
                  THEN [drawn |-> TRUE,
                        month |-> Months[k],
                        height |-> BarHeight(clip.values[k], clip.max_val,
                                             BarProgress(t, k - 1)),
                        label |-> IF /\ LabelProgress(BarProgress(t, k - 1), k - 1)
                                     /\ clip.values[k] > 0
                                  THEN Drawn(Digits(clip.values[k]), clip.values[k])
                                  ELSE Absent]
                  ELSE Absent ]]

ChartClip(st) ==
    [kind |-> "chart", stats |-> st, values |-> Values(st),
     max_val |-> MaxVal(Values(st)), duration |-> Secs(7)]

(***************************************************************************)
(* The clips the renderer is exercised on, besides the count-up clips.     *)
(***************************************************************************)
IntroClips ==
    { IntroClip(st) :
        st \in { SampleRepo,
                 [SampleRepo EXCEPT !.repo_name = << "wrapped" >>, !.year = 2023] } }

LeaderboardClips ==
    { LeaderboardClip([SampleRepo EXCEPT !.top_contributors = cs]) :
        cs \in { SubSeq(ContributorPool, 1, n) : n \in {0, 1, 3, 5, 7} } }

TimesClips ==
    { TimesClip(st) :
        st \in { SampleRepo,
                 [SampleRepo EXCEPT !.busiest_day = "Saturday",
                                    !.busiest_month = "October",
                                    !.peak_hour = 9,
                                    !.weekend_commits = 0] } }

LinesClips ==
    { LinesClip([SampleRepo EXCEPT !.lines_added = a, !.lines_deleted = d]) :
        a \in {0, 57, 1234}, d \in {0, 57, 1234} }

\* During a bar's growth Python's float product can fall just below a whole
\* exact value.  It cannot where the exact product is not whole, where the
\* value is 0, or half-way through the growth (eased = 0.875) of a value that
\* is a multiple of an eighth of the maximum.
ChartExactOnGrid(values) ==
    \A i \in 1..Len(values) : \A t \in 0..(Secs(7) - 1) :
        LET n == BarProgress(t, i - 1)
            product == values[i] * EaseOutCubic(n, 2 * Secs(1))
            unit == MaxVal(values) * ((2 * Secs(1) * 2 * Secs(1) * 2 * Secs(1))
                                         \div (ChartHeight - 80))
        IN  ( /\ 2 * t > BarStart(i - 1)
              /\ n < 2 * Secs(1)
              /\ MaxVal(values) > 0 ) =>
                \/ product % unit # 0
                \/ values[i] = 0
                \/ (n = Secs(1) /\ (8 * values[i]) % MaxVal(values) = 0)

ChartClips ==
    { ChartClip([SampleRepo EXCEPT !.commits_by_month = MonthMap(pairs)]) :
        pairs \in { ps \in { {},
                             { << m, 0 >> : m \in { MonthFull[i] : i \in 1..12 } },
                             { << "January", 10 >>, << "March", 5 >> },
                             { << "January", 10 >>, << "February", 7 >> },
                             { << "June", 0 >>, << "December", 3 >> },
                             { << "July", 4 >>, << "August", 8 >>, << "September", 1 >> } } :
                       ChartExactOnGrid(
                           Values([commits_by_month |-> MonthMap(ps)])) } }

OutroClips ==
    { OutroClip(st) :
        st \in { SampleRepo,
                 [SampleRepo EXCEPT !.total_commits = 0, !.total_prs = 0,
                                    !.total_releases = 0] } }

FrameClips ==
    CountupClips \cup IntroClips \cup LeaderboardClips \cup TimesClips
        \cup LinesClips \cup ChartClips \cup OutroClips

\* VideoClip.get_frame(t): the make_frame closure the clip was built with.
MakeFrame(clip, t) ==
    CASE clip.kind = "countup" -> MakeFrameCountup(clip, t)
      [] clip.kind = "intro" -> MakeFrameIntro(clip, t)
      [] clip.kind = "leaderboard" -> MakeFrameLeaderboard(clip, t)
      [] clip.kind = "times" -> MakeFrameTimes(clip, t)
      [] clip.kind = "lines" -> MakeFrameLines(clip, t)
      [] clip.kind = "chart" -> MakeFrameChart(clip, t)
      [] clip.kind = "outro" -> MakeFrameOutro(clip, t)

(***************************************************************************)
(* The animation windows of the reveal elements: an element that is gated  *)
(* by "if t > start" animates with progress = min((t - start) / length,    *)
(* 1.0).  Offsets and lengths are in half ticks, as the chart's are.       *)
(***************************************************************************)
Window(start, length) == [start |-> 2 * start, length |-> 2 * length]

\* The (start, length) pairs of make_frame of each clip, in drawing order.
RevealWindows(clip) ==
    CASE clip.kind = "intro" ->
           << Window(0, Tenths(15)), Window(Secs(1), Secs(1)),
              Window(Tenths(15), Tenths(8)) >>
      [] clip.kind = "countup" ->
           << Window(Tenths(3), Secs(2)) >>
           \o (IF clip.subtitle # "" THEN << Window(Tenths(25), Tenths(8)) >>
                                     ELSE <<>>)
      [] clip.kind = "leaderboard" ->
           [ k \in 1..Len(clip.contributors) |-> Window(RowStart(k - 1), Tenths(4)) ]
      [] clip.kind = "times" ->
           [ k \in 1..Len(TimesItems(clip.stats)) |->
               Window(TimesItems(clip.stats)[k].start_time, Tenths(5)) ]
      [] clip.kind = "lines" ->
           << Window(Tenths(5), Tenths(15)), Window(Tenths(15), Tenths(15)),
              Window(Secs(3), Tenths(8)) >>
      [] clip.kind = "chart" ->
           [ k \in 1..Len(clip.values) |->
               [start |-> BarStart(k - 1), length |-> 2 * Secs(1)] ]
      [] clip.kind = "outro" ->
           << Window(Tenths(3), Tenths(8)), Window(Tenths(8), Tenths(6)) >>
           \o [ k \in 1..Len(OutroStats(clip.stats)) |->
                  Window(StatStart(k - 1), Tenths(4)) ]
           \o << Window(Tenths(35), Tenths(6)) >>

\* progress = min((t - start) / length, 1.0) of an element at instant t (in
\* ticks), as a numerator over the window's length; 0 while it is not drawn.
RevealProgress(w, t) ==
    IF (2 * t) > w.start THEN Min((2 * t) - w.start, w.length) ELSE 0

\* The fade-out the clip's builder wraps it in (lines 282, 344, 405, 466, 543,
\* 619 and 691), in ticks.
FadeOut(clip) ==
    CASE clip.kind = "intro" -> CreateIntroClip(clip.stats).fadeout
      [] clip.kind = "countup" -> CreateCountupClip(clip.title, clip.number).fadeout
      [] clip.kind = "leaderboard" -> CreateLeaderboardClip(clip.stats).fadeout
      [] clip.kind = "times" -> CreateTimesClip(clip.stats).fadeout
      [] clip.kind = "lines" -> CreateLinesClip(clip.stats).fadeout
      [] clip.kind = "chart" -> CreateChartClip(clip.stats).fadeout
      [] clip.kind = "outro" -> CreateOutroClip(clip.stats).fadeout

\* The instant (in ticks) the fade-out of the clip begins.
FadeOutStart(clip) == clip.duration - FadeOut(clip)

\* The array make_frame returns: what it drew, over the content of the array
\* it started from.  Over the clean gradient that is the drawing itself.
Paint(canvas, drawing) ==
    IF canvas = Clean
    THEN drawing
    ELSE [kind |-> "overpainted", under |-> canvas, over |-> drawing]

\* Faulty variant: make_frame draws on the gradient array itself, so that
\* the closure's gradient keeps what was drawn.
GradientCopy_InPlace(g, drawing) ==
    [painted |-> TRUE, drawing |-> Paint(g, drawing)]

\* frame = gradient.copy() (lines 224, 298, 354, 413, 474, 557 and 627): the
\* drawing goes to the copy and the closure's gradient array stays as it was.
GradientCopy(g, drawing) == g

\* The instants the encoder requests frames at: t = k / fps for 0 <= t < duration.
FrameTimes(clip) == 0..(clip.duration - 1)

InitRender ==
    /\ PipelineIdle
    /\ Entry(SampleStats)
    /\ narr_secs = 2
    /\ rclip \in CountupClips
    /\ rt = NotRequested
    /\ rframe = NoFrame
    /\ NoEasing
    /\ gradient = Gradients({rclip})

\* The encoder pulls the frame at instant t; make_frame computes it from the
\* clip's parameters and t alone.
GetFrame ==
    /\ \E t \in FrameTimes(rclip) :
         /\ rt' = t
         /\ rframe' = Paint(gradient[rclip], MakeFrame(rclip, t))
         /\ gradient' = [gradient EXCEPT
                           ![rclip] = GradientCopy(@, MakeFrame(rclip, t))]
    /\ UNCHANGED << rclip, assembly_vars, pipeline_vars, ease_t, ease_ret >>

NextRender == GetFrame

SpecRender == InitRender /\ [][NextRender]_vars

(***************************************************************************)
(* The nine clips of one run, as the encoder renders them: the clips of    *)
(* lines 95-134 for the sample record, each with its own gradient array.   *)
(* The encoder may ask any clip for any frame, in any order.               *)
(***************************************************************************)
Timeline(st) ==
    << IntroClip(st),
       CountupClip("TOTAL COMMITS", st.total_commits, "across 200 different days"),
       CountupClip("PULL REQUESTS MERGED", st.total_prs, "Biggest: Add dark mode"),
       LeaderboardClip(st),
       TimesClip(st),
       LinesClip(st),
       CountupClip("RELEASES SHIPPED", st.total_releases, ""),
       ChartClip(st),
       OutroClip(st) >>

TimelineClips == { Timeline(SampleRepo)[i] : i \in 1..Len(Timeline(SampleRepo)) }

InitTimeline ==
    /\ PipelineIdle
    /\ Entry(SampleStats)
    /\ narr_secs = 2
    /\ rclip \in TimelineClips
    /\ rt = NotRequested
    /\ rframe = NoFrame
    /\ NoEasing
    /\ gradient = Gradients(TimelineClips)

\* The encoder turns to another clip of the timeline.
SelectClip ==
    /\ \E c \in TimelineClips \ {rclip} : rclip' = c
    /\ rt' = NotRequested
    /\ rframe' = NoFrame
    /\ UNCHANGED << gradient, assembly_vars, pipeline_vars, ease_t, ease_ret >>

NextTimeline ==
    \/ GetFrame
    \/ SelectClip

SpecTimeline == InitTimeline /\ [][NextTimeline]_vars

(***************************************************************************)
(* The easing functions on their own: a call with a progress t in [0, 1],  *)
(* t = num / den for the window lengths den (in ticks) the renderers use.  *)
(***************************************************************************)
EaseArgs ==
    { a \in { [num |-> n, den |-> d] :
                d \in { Tenths(4), Tenths(5), Tenths(6), Tenths(8), Secs(1),
                        Tenths(15), Secs(2) },
                n \in 0..Secs(2) } :
        a.num <= a.den }

InitEasing ==
    /\ PipelineIdle
    /\ Entry(SampleStats)
    /\ narr_secs = 2
    /\ rclip = NoClip
    /\ rt = NotRequested
    /\ rframe = NoFrame
    /\ ease_t \in EaseArgs
    /\ ease_ret = NoReturn
    /\ gradient = Gradients({})

CallEaseOutCubic ==
    /\ ease_ret = NoReturn
    /\ ease_ret' = [fn |-> "ease_out_cubic",
                    num |-> EaseOutCubic(ease_t.num, ease_t.den),
                    den |-> ease_t.den * ease_t.den * ease_t.den]
    /\ UNCHANGED << ease_t, rclip, rt, rframe, gradient, assembly_vars, pipeline_vars >>

CallEaseOutElastic ==
    /\ ease_ret = NoReturn
    /\ ease_ret' = [fn |-> "ease_out_elastic",
                    value |-> EaseOutElastic(ease_t.num, ease_t.den)]
    /\ UNCHANGED << ease_t, rclip, rt, rframe, gradient, assembly_vars, pipeline_vars >>

NextEasing ==
    \/ CallEaseOutCubic
    \/ CallEaseOutElastic

SpecEasing == InitEasing /\ [][NextEasing]_vars

\* The renderer of every clip type.
InitFrames ==
    /\ PipelineIdle
    /\ Entry(SampleStats)
    /\ narr_secs = 2
    /\ rclip \in FrameClips
    /\ rt = NotRequested
    /\ rframe = NoFrame
    /\ NoEasing
    /\ gradient = Gradients({rclip})

\* write_videofile encodes the frames in order: t = 0, 1/fps, 2/fps, ... up
\* to the clip's duration.
NextFrame ==
    /\ rclip # NoClip
    /\ rt + 1 \in FrameTimes(rclip)
    /\ rt' = rt + 1
    /\ rframe' = Paint(gradient[rclip], MakeFrame(rclip, rt + 1))
    /\ gradient' = [gradient EXCEPT
                      ![rclip] = GradientCopy(@, MakeFrame(rclip, rt + 1))]
    /\ UNCHANGED << rclip, assembly_vars, pipeline_vars, ease_t, ease_ret >>

NextFrames == NextFrame

SpecFrames == InitFrames /\ [][NextFrames]_vars

(***************************************************************************)
(* The static slides (slide_generator.py) and their narration audio        *)
(* (audio_generator.py).                                                   *)
(***************************************************************************)
\* The Slide dataclass (lines 13-17); the duration is in ticks.
Slide(image_path, narration, duration) ==
    [image_path |-> image_path, narration |-> narration, duration |-> duration]

\* generate_all_slides (lines 72-102): the nine slides, in order, each with
\* the duration its _create_*_slide method gives it.
GenerateAllSlides(st) ==
    << Slide("slide_01_intro.png", "Welcome to ... Wrapped.", Secs(5)),
       Slide("slide_02_commits.png", "Your team made ... commits this year", Secs(5)),
       Slide("slide_03_prs.png", "... pull requests were merged this year.", Secs(6)),
       Slide("slide_04_contributors.png", "Your top contributor was ...", Secs(7)),
       Slide("slide_05_times.png", "Your team coded the most on ...", Secs(7)),
       Slide("slide_06_lines.png", "Your team added ... lines", Secs(6)),
       Slide("slide_07_releases.png", "You shipped ... releases this year", Secs(5)),
       Slide("slide_08_chart.png", "Here's how your commit activity looked", Secs(6)),
       Slide("slide_09_outro.png", "That's a wrap on ...!", Secs(6)) >>

\* f"{index:02d}".
TwoDigits(n) == IF n < 10 THEN "0" \o Digits(n) ELSE Digits(n)

\* Line 41: os.path.join(Config.TEMP_DIR, f"audio_{index:02d}.mp3").
AudioPath(index) == "output/temp/audio_" \o TwoDigits(index) \o ".mp3"

\* _generate_audio (lines 31-51): the path of the file written, or "" when
\* the text-to-speech call or the write raised.
GenerateAudio(outcome, index) ==
    IF outcome = "ok" THEN AudioPath(index) ELSE ""

\* Faulty variant: a failed synthesis leaves no entry in the list.
AppendAudioPath_SkipFailed(paths, audio_path) ==
    IF audio_path = "" THEN paths ELSE Append(paths, audio_path)

\* Line 27: audio_paths.append(audio_path).
AppendAudioPath(paths, audio_path) == Append(paths, audio_path)

\* A call generate_audio_for_slides(slides) on an AudioGenerator whose client
\* is configured (ELEVENLABS_API_KEY set) or not.
InitAudio ==
    /\ Entry(SampleStats)
    /\ narr_secs = 2
    /\ Idle
    /\ gpc = "audio"
    /\ \E client \in BOOLEAN : opts = [command |-> "audio", client |-> client]
    /\ events = <<>>
    /\ slides = GenerateAllSlides(SampleRepo)
    /\ tts = <<>>
    /\ synth = <<>>

\* Lines 20-22: without a client the empty list is returned at once.
NoClient ==
    /\ gpc = "audio"
    /\ ~ opts.client
    /\ gpc' = "audio_returned"
    /\ UNCHANGED << opts, events, slides, tts, synth, assembly_vars, render_vars >>

\* Lines 24-27: one iteration of the loop over enumerate(slides).
SynthesizeSlide ==
    /\ gpc = "audio"
    /\ opts.client
    /\ Len(tts) < Len(slides)
    /\ \E outcome \in {"ok", "error"} :
         /\ tts' = Append(tts, outcome)
         /\ synth' = AppendAudioPath(synth, GenerateAudio(outcome, Len(tts)))
    /\ UNCHANGED << gpc, opts, events, slides, assembly_vars, render_vars >>

\* Line 29: return audio_paths, once every slide was visited.
ReturnAudioPaths ==
    /\ gpc = "audio"
    /\ opts.client
    /\ Len(tts) = Len(slides)
    /\ gpc' = "audio_returned"
    /\ UNCHANGED << opts, events, slides, tts, synth, assembly_vars, render_vars >>

NextAudio ==
    \/ NoClient
    \/ SynthesizeSlide
    \/ ReturnAudioPaths

SpecAudio == InitAudio /\ [][NextAudio]_vars

(***************************************************************************)
(* The static pipeline's video: VideoGenerator.create_video                *)
(* (video_generator.py, lines 23-82).  An entry of audio_paths is the      *)
(* empty string ("empty"), or the path of a file that is missing           *)
(* ("absent"), undecodable ("corrupt") or decodable ("ok").                *)
(***************************************************************************)
StaticPathKinds == PathKinds \cup {"empty"}

\* Lines 37-42: ImageClip(slide.image_path).set_duration(slide.duration),
\* resized, with a 0.5-second fade-in and fade-out.
ImageClip(slide, i) ==
    [type |-> "video", kind |-> "image", pos |-> i, duration |-> slide.duration,
     fadein |-> Tenths(5), fadeout |-> Tenths(5), audio |-> NoAudio]

SetDuration(c, d) == [c EXCEPT !.duration = d]

\* Lines 45-53: the audio of slide i.  An empty entry is skipped; a missing or
\* undecodable file makes AudioFileClip raise, and the except branch keeps
\* the clip as it was; a decoded narration longer than the slide makes the
\* clip last one second longer than the narration.
AddSlideAudio(img_clip, slide, kind, audio_duration) ==
    IF kind = "ok"
    THEN LET audio == AudioFileClip("narration", img_clip.pos, audio_duration) IN
         SetAudio(IF audio.duration > slide.duration
                  THEN SetDuration(img_clip, audio.duration + Secs(1))
                  ELSE img_clip,
                  audio)
    ELSE img_clip

\* Line 53: the warning of the except branch.
SlideWarnings(ws, kind, i) ==
    IF kind \in {"absent", "corrupt"} THEN Append(ws, [what |-> "audio", pos |-> i])
                                       ELSE ws

\* The start of clip i (from 1) in a concatenation of cs.
ClipStart(cs, i) == SumDurations(SubSeq(cs, 1, i - 1))

\* Positions of the clips of cs that carry audio, in order.
RECURSIVE WithAudio(_, _)
WithAudio(cs, i) ==
    IF i > Len(cs) THEN <<>>
    ELSE (IF cs[i].audio # NoAudio THEN << i >> ELSE <<>>) \o WithAudio(cs, i + 1)

\* concatenate_videoclips(clips, method="compose") (line 59): the clips one
\* after the other, and the clips' audio composed at the clips' starts.
ConcatenateCompose(cs) ==
    LET ks == WithAudio(cs, 1) IN
    [type |-> "video",
     duration |-> SumDurations(cs),
     audio |-> IF ks = <<>>
               THEN NoAudio
               ELSE CompositeAudioClip(
                        [ n \in 1..Len(ks) |->
                            SetStart(cs[ks[n]].audio, ClipStart(cs, ks[n])) ])]

\* The state at the entry of create_video(slides, audio_paths).
InitStatic ==
    /\ pc = "slides"
    /\ stats = SampleStats
    /\ clips = <<>>
    /\ final_video = NoVideo
    /\ audio_paths = <<>>
    /\ narr_secs \in NarrSecs
    /\ current_time = 0
    /\ audio_clips = <<>>
    /\ music_path = NoMusicPath
    /\ warnings = <<>>
    /\ artifact = NoArtifact
    /\ Idle
    /\ gpc = "create_video"
    /\ opts = [command |-> "create_video"]
    /\ events = <<>>
    /\ slides = GenerateAllSlides(SampleRepo)
    /\ tts = <<>>
    /\ synth = <<>>

\* Lines 33-55: one iteration of the loop over enumerate(slides).
ProcessSlide ==
    /\ pc = "slides"
    /\ Len(clips) < Len(slides)
    /\ \E kind \in StaticPathKinds :
         LET i == Len(clips)
             slide == slides[i + 1]
         IN  /\ clips' = Append(clips, AddSlideAudio(ImageClip(slide, i), slide, kind,
                                                     Secs(narr_secs)))
             /\ audio_paths' = Append(audio_paths, kind)
             /\ warnings' = SlideWarnings(warnings, kind, i)
    /\ UNCHANGED << pc, stats, final_video, narr_secs, current_time, audio_clips,
                    music_path, artifact, render_vars, pipeline_vars >>

\* Lines 57-59: final = concatenate_videoclips(clips, method="compose").
ConcatenateSlides ==
    /\ pc = "slides"
    /\ Len(clips) = Len(slides)
    /\ final_video' = ConcatenateCompose(clips)
    /\ pc' = "write"
    /\ UNCHANGED << stats, clips, audio_paths, narr_secs, current_time, audio_clips,
                    music_path, warnings, artifact, render_vars, pipeline_vars >>

\* Lines 61-82 are the write_videofile call of the animated pipeline.
NextStatic ==
    \/ ProcessSlide
    \/ ConcatenateSlides
    \/ WriteVideofile
    \/ EncodeFails

SpecStatic == InitStatic /\ [][NextStatic]_vars

(***************************************************************************)
(* The generate command (main.py, lines 80-175), step by step.  events is  *)
(* the list of the pipeline steps that have completed.                     *)
(***************************************************************************)
\* No statistics record has been collected.
NoStats == [collected |-> FALSE]

\* The options of a run: --static, --no-audio, --gif, --music / --music-url,
\* and whether ELEVENLABS_API_KEY gives the audio generator a client.
GenerateOptions ==
    { [command |-> "generate", static |-> s, no_audio |-> n, gif |-> g,
       music |-> m, client |-> c] :
        s \in BOOLEAN, n \in BOOLEAN, g \in BOOLEAN,
        m \in {"none", "file", "url"}, c \in BOOLEAN }

InitGenerate ==
    /\ pc = "idle"
    /\ stats = NoStats
    /\ clips = <<>>
    /\ final_video = NoVideo
    /\ audio_paths = <<>>
    /\ narr_secs = 2
    /\ current_time = 0
    /\ audio_clips = <<>>
    /\ music_path = NoMusicPath
    /\ warnings = <<>>
    /\ artifact = NoArtifact
    /\ Idle
    /\ gpc = "start"
    /\ opts \in GenerateOptions
    /\ events = <<>>
    /\ slides = <<>>
    /\ tts = <<>>
    /\ synth = <<>>

\* Lines 93-95: stats = collector.collect(), a blocking call, and the summary.
Collect ==
    /\ gpc = "start"
    /\ stats' = SampleStats
    /\ events' = Append(events, "collect")
    /\ gpc' = "collected"
    /\ UNCHANGED << pc, clips, final_video, audio_paths, narr_secs, current_time,
                    audio_clips, music_path, warnings, artifact, render_vars,
                    opts, slides, tts, synth >>

\* collect() raises (not a git repository, git missing): the command ends.
CollectFails ==
    /\ gpc = "start"
    /\ gpc' = "failed"
    /\ UNCHANGED << assembly_vars, render_vars, opts, events, slides, tts, synth >>

\* Lines 97-106: the music file is looked up or downloaded when one was asked
\* for.
ResolveMusic ==
    /\ gpc = "collected"
    /\ events' = IF opts.music # "none" THEN Append(events, "music") ELSE events
    /\ gpc' = "generator"
    /\ UNCHANGED << assembly_vars, render_vars, opts, slides, tts, synth >>

\* Faulty variant: the narration block is skipped and the video is created
\* right after the generator was set up.
StepAfterGenerator_SkipsNarration(o) == "video"

\* Lines 115-116, 144-145: the narration block follows in both branches.
StepAfterGenerator(o) == "narration"

\* Lines 108-113: the static branch generates the slides.
GenerateSlides ==
    /\ gpc = "generator"
    /\ opts.static
    /\ slides' = GenerateAllSlides(SampleRepo)
    /\ events' = Append(events, "slides")
    /\ gpc' = StepAfterGenerator(opts)
    /\ UNCHANGED << assembly_vars, render_vars, opts, tts, synth >>

\* Lines 138-142: the animated branch constructs AnimatedVideoGenerator(stats),
\* which builds no clip yet.
PrepareAnimations ==
    /\ gpc = "generator"
    /\ ~ opts.static
    /\ events' = Append(events, "templates")
    /\ gpc' = StepAfterGenerator(opts)
    /\ UNCHANGED << assembly_vars, render_vars, opts, slides, tts, synth >>

\* Lines 126, 158: with --no-audio, audio_paths stays [].
SkipNarration ==
    /\ gpc = "narration"
    /\ opts.no_audio
    /\ gpc' = "video"
    /\ UNCHANGED << assembly_vars, render_vars, opts, events, slides, tts, synth >>

\* Lines 117-124, 146-156: audio_paths = generate_audio_for_slides(slides);
\* the animated branch generates the slides for their narration texts first.
\* Without a client the list is empty.
SynthesizeNarration ==
    /\ gpc = "narration"
    /\ ~ opts.no_audio
    /\ slides' = GenerateAllSlides(SampleRepo)
    /\ \E outcome \in {"ok", "error"} :
         synth' = IF opts.client
                  THEN [ i \in 1..Len(GenerateAllSlides(SampleRepo)) |->
                           GenerateAudio(outcome, i - 1) ]
                  ELSE <<>>
    /\ events' = events \o (IF opts.static THEN <<>> ELSE << "slides" >>)
                        \o << "synthesize" >>
    /\ gpc' = "video"
    /\ UNCHANGED << assembly_vars, render_vars, opts, tts >>

\* The clips of the video: the image clips of create_video (lines 33-55, each
\* with its narration attached) or of create_video_no_audio (lines 93-104), or
\* the animated clips of create_animated_video (lines 92-138).
BuildVideoClips ==
    /\ gpc = "video"
    /\ events' = events \o << "build_clips" >>
                        \o (IF opts.static /\ synth # <<>>
                            THEN << "compose_audio" >> ELSE <<>>)
    /\ gpc' = IF opts.static THEN "encode" ELSE "compose"
    /\ UNCHANGED << assembly_vars, render_vars, opts, slides, tts, synth >>

\* Lines 140-182 of create_animated_video: narration and music are composed.
ComposeAudio ==
    /\ gpc = "compose"
    /\ events' = Append(events, "compose_audio")
    /\ gpc' = "encode"
    /\ UNCHANGED << assembly_vars, render_vars, opts, slides, tts, synth >>

\* write_videofile returns.
EncodeVideo ==
    /\ gpc = "encode"
    /\ events' = Append(events, "encode")
    /\ gpc' = "encoded"
    /\ UNCHANGED << assembly_vars, render_vars, opts, slides, tts, synth >>

\* write_videofile raises: the exception leaves generate.
EncodeVideoFails ==
    /\ gpc = "encode"
    /\ gpc' = "failed"
    /\ UNCHANGED << assembly_vars, render_vars, opts, events, slides, tts, synth >>

\* Lines 136-137: with --static --gif, create_gif_preview(slides) builds its own
\* image clips and encodes them with write_gif, after the video was written.
CreateGifPreview ==
    /\ gpc = "encoded"
    /\ opts.static
    /\ opts.gif
    /\ events' = events \o << "gif_clips", "gif_encode" >>
    /\ gpc' = "previewed"
    /\ UNCHANGED << assembly_vars, render_vars, opts, slides, tts, synth >>

\* Lines 168-175: the "Done!" panel.
Done ==
    /\ \/ gpc = "previewed"
       \/ gpc = "encoded" /\ ~ (opts.static /\ opts.gif)
    /\ gpc' = "done"
    /\ UNCHANGED << assembly_vars, render_vars, opts, events, slides, tts, synth >>

NextGenerate ==
    \/ Collect
    \/ CollectFails
    \/ ResolveMusic
    \/ GenerateSlides
    \/ PrepareAnimations
    \/ SkipNarration
    \/ SynthesizeNarration
    \/ BuildVideoClips
    \/ ComposeAudio
    \/ EncodeVideo
    \/ EncodeVideoFails
    \/ CreateGifPreview
    \/ Done

SpecGenerate == InitGenerate /\ [][NextGenerate]_vars

(***************************************************************************)
(* Properties of create_animated_video.                                    *)
(***************************************************************************)

\* C1: whatever narration and music are supplied, the video has a total
\* duration of 5+5+5+7+6+6+5+7+6 = 52 seconds from its concatenation on, and
\* so has the written artifact; attaching audio never changes it.
C1_TotalDurationIs52s ==
    /\ pc # "build" =>
         final_video.duration = Secs(5 + 5 + 5 + 7 + 6 + 6 + 5 + 7 + 6)
    /\ artifact.written => artifact.duration = Secs(52)

\* A finished run with music and a narration that ends after the video does.
C1_Witness ==
    /\ pc = "done"
    /\ artifact.audio.attached
    /\ \E k \in 1..Len(artifact.audio.tracks) :
         artifact.audio.tracks[k].kind = "music"
    /\ \E k \in 1..Len(artifact.audio.tracks) :
         /\ artifact.audio.tracks[k].kind = "narration"
         /\ artifact.audio.tracks[k].start + artifact.audio.tracks[k].duration
              > Secs(52)

\* C2: the clips are built in the fixed order intro, commits, pull-requests,
\* leaderboard, time-of-day, lines-of-code, releases, activity-chart, outro,
\* and exactly nine of them are concatenated, for every statistics record.
C2_NineClipsInOrder ==
    LET order == << "intro", "commits", "pull-requests", "leaderboard",
                    "time-of-day", "lines-of-code", "releases",
                    "activity-chart", "outro" >>
    IN  /\ Len(clips) <= 9
        /\ \A i \in 1..Len(clips) : clips[i].kind = order[i]
        /\ pc # "build" => Len(clips) = 9

\* The timeline of a repository with no commits, pull requests or releases.
C2_Witness ==
    /\ pc = "narration"
    /\ stats = RepoStats(0, 0, 0)
    /\ Len(clips) = 9
    /\ clips[7].kind = "releases"
    /\ clips[7].number = 0

\* C3: a narration loaded for clip position i starts at the sum of the
\* durations of clips 0..i-1 plus 0.5 seconds.
C3_NarrationStart ==
    \A k \in 1..Len(audio_clips) :
        audio_clips[k].kind = "narration" =>
            audio_clips[k].start =
                SumDurations(SubSeq(clips, 1, audio_clips[k].pos)) + Tenths(5)

\* The outro's narration is placed at 46.5 s after two dropped entries.
C3_Witness ==
    /\ pc = "done"
    /\ Len(audio_paths) = 9
    /\ audio_paths[1] = "absent"
    /\ audio_paths[2] = "corrupt"
    /\ \E k \in 1..Len(audio_clips) :
         /\ audio_clips[k].kind = "narration"
         /\ audio_clips[k].pos = 8
         /\ audio_clips[k].start = Secs(46) + Tenths(5)

\* C4 as claimed: no two narration tracks overlap, whatever their lengths.
C4_NarrationsNeverOverlap ==
    \A a, b \in 1..Len(audio_clips) :
        ( /\ a < b
          /\ audio_clips[a].kind = "narration"
          /\ audio_clips[b].kind = "narration" )
        => audio_clips[a].start + audio_clips[a].duration <= audio_clips[b].start

\* C4, amended: a narration that is no longer than its host clip ends no
\* later than any later narration starts.  The composer neither truncates nor
\* shifts a longer one.
C4_FittingNarrationsNeverOverlap ==
    \A a, b \in 1..Len(audio_clips) :
        ( /\ a < b
          /\ audio_clips[a].kind = "narration"
          /\ audio_clips[b].kind = "narration"
          /\ audio_clips[a].duration <= clips[audio_clips[a].pos + 1].duration )
        => audio_clips[a].start + audio_clips[a].duration <= audio_clips[b].start

\* A 6-second narration on the 6-second time-of-day clip ends exactly where
\* the narration of the next clip starts.
C4_Witness ==
    /\ pc = "done"
    /\ \E a, b \in 1..Len(audio_clips) :
         /\ audio_clips[a].kind = "narration"
         /\ audio_clips[b].kind = "narration"
         /\ audio_clips[a].pos = 4
         /\ audio_clips[b].pos = 5
         /\ audio_clips[a].duration = clips[5].duration
         /\ audio_clips[a].start + audio_clips[a].duration = audio_clips[b].start

\* The music file was found and decoded.
MusicLoaded == music_path.kind = "ok"

\* The music block (lines 156-177) has run.
AfterMusic == pc \in {"combine", "write", "done", "failed"}

\* C5 as claimed: for every positive music duration, the music track in the
\* composite audio is exactly as long as the video (looped when shorter,
\* truncated when longer).
C5_MusicFitsVideo ==
    (AfterMusic /\ MusicLoaded) =>
        \E k \in 1..Len(audio_clips) :
            /\ audio_clips[k].kind = "music"
            /\ audio_clips[k].duration = final_video.duration

\* C6: the music's gain is 30% without narration tracks and 15% with them; the
\* 2-second fade-in and 3-second fade-out are on the music track alone, and a
\* narration track keeps its full gain and has no fade.
C6_MusicGainAndFades ==
    \A k \in 1..Len(audio_clips) :
        LET c == audio_clips[k] IN
        /\ c.kind = "music" =>
             /\ c.gain = IF \E j \in 1..Len(audio_clips) :
                                audio_clips[j].kind = "narration"
                         THEN 15 ELSE 30
             /\ c.fadein = Secs(2)
             /\ c.fadeout = Secs(3)
        /\ c.kind = "narration" =>
             /\ c.gain = 100
             /\ c.fadein = 0
             /\ c.fadeout = 0

\* Ducked music under a narration track.
C6_Witness ==
    /\ pc = "done"
    /\ Len(audio_clips) >= 2
    /\ audio_clips[1].kind = "music"
    /\ audio_clips[1].gain = 15
    /\ audio_clips[2].kind = "narration"
    /\ audio_clips[2].gain = 100

\* The (kind, position) of every track, in list order.
TrackIds(tracks) == [k \in 1..Len(tracks) |-> << tracks[k].kind, tracks[k].pos >>]

\* The narration entries that decoded, as (kind, position), in clip order.
RECURSIVE LoadedNarrationIds(_, _)
LoadedNarrationIds(paths, i) ==
    IF paths = <<>>
    THEN <<>>
    ELSE (IF Head(paths) = "ok" THEN << << "narration", i >> >> ELSE <<>>)
         \o LoadedNarrationIds(Tail(paths), i + 1)

\* C7 as claimed: the list handed to the mixer holds the music first whenever
\* the music was loaded, then the loaded narrations in clip order, each once,
\* the music starting at 0.
C7_MusicFirstThenNarrations ==
    AfterMusic =>
        /\ TrackIds(audio_clips) =
             (IF MusicLoaded THEN << << "music", 0 >> >> ELSE <<>>)
             \o LoadedNarrationIds(audio_paths, 0)
        /\ \A k \in 1..Len(audio_clips) :
             audio_clips[k].kind = "music" => audio_clips[k].start = 0

\* C8 as claimed: exactly the assets that failed to load are dropped; every
\* asset that loaded is among the tracks.
C8_KeepsEveryLoadedAsset ==
    AfterMusic =>
        { TrackIds(audio_clips)[k] : k \in 1..Len(audio_clips) } =
            (IF MusicLoaded THEN { << "music", 0 >> } ELSE {})
            \cup { << "narration", i - 1 >> :
                     i \in { j \in 1..Len(audio_paths) : audio_paths[j] = "ok" } }

\* C9: with no narration track and no music track, no audio is attached to the
\* video, and the artifact is written silent with the full 52 seconds.
C9_SilentVideo ==
    /\ (pc \in {"write", "done", "failed"} /\ audio_clips = <<>>) =>
           ~final_video.audio.attached
    /\ (pc = "done" /\ audio_clips = <<>>) =>
           /\ artifact.written
           /\ ~artifact.audio.attached
           /\ artifact.duration = Secs(52)

\* Nine narration entries and the music were all dropped; the artifact is
\* written all the same.
C9_Witness ==
    /\ pc = "done"
    /\ Len(audio_paths) = 9
    /\ music_path.kind = "corrupt"
    /\ audio_clips = <<>>
    /\ artifact.written

(***************************************************************************)
(* Properties of the count-up clip's frames.                               *)
(***************************************************************************)

\* C10 as claimed: at t = a = 0.3 s and at every earlier instant the rendered
\* numeral is 0.
C10_NumeralIsZeroBeforeWindow ==
    (rt # NotRequested /\ rt <= Tenths(3)) =>
        /\ rframe.numeral.drawn
        /\ rframe.numeral.value = 0

\* C10, amended: at t = a = 0.3 s and at every earlier instant no numeral is
\* rendered at all (the element is absent, not drawn as 0); at every later
\* instant a numeral is rendered.
C10_NoNumeralBeforeWindow ==
    /\ (rt # NotRequested /\ rt <= Tenths(3)) => ~rframe.numeral.drawn
    /\ rt > Tenths(3) => rframe.numeral.drawn

\* The frame at exactly t = 0.3 s of a count-up to 1,234 has no numeral.
C10_Witness ==
    /\ rt = Tenths(3)
    /\ rclip.number = MaxCount
    /\ rframe.kind = "countup"
    /\ ~rframe.numeral.drawn
    /\ rframe.title.drawn

\* C11: at t = a + d = 2.3 s and at every later instant of a count-up clip the
\* numeral drawn is exactly the target N, written with thousands separators:
\* 1234 is written "1,234".
C11_NumeralIsTargetAfterWindow ==
    (rt # NotRequested /\ rclip.kind = "countup" /\ rt >= Tenths(3) + Secs(2)) =>
        LET N == rclip.number IN
        /\ rframe.numeral.drawn
        /\ rframe.numeral.value = N
        /\ rframe.numeral.text =
             IF N < 1000
             THEN Digits(N)
             ELSE Digits(N \div 1000) \o ","
                  \o DigitChars[((N % 1000) \div 100) + 1]
                  \o DigitChars[((N % 100) \div 10) + 1]
                  \o DigitChars[(N % 10) + 1]
        /\ N = 1234 => rframe.numeral.text = "1,234"

\* The frame at exactly t = 2.3 s of the count-up to 1,234.
C11_Witness ==
    /\ rt = Tenths(3) + Secs(2)
    /\ rclip.kind = "countup"
    /\ rclip.number = 1234
    /\ rframe.numeral.drawn
    /\ rframe.numeral.text = "1,234"

\* C12: the numeral of a count-up clip never decreases from a frame to a later
\* frame, and no frame shows a numeral above the target N.
C12_NumeralNonDecreasing ==
    [][ /\ ( rclip.kind = "countup" /\ rframe'.numeral.drawn ) =>
              rframe'.numeral.value <= rclip.number
        /\ ( /\ rclip.kind = "countup"
             /\ rt # NotRequested
             /\ rt' >= rt
             /\ rframe.numeral.drawn ) =>
              /\ rframe'.numeral.drawn
              /\ rframe'.numeral.value >= rframe.numeral.value ]_vars

\* A frame in the middle of the count-up: one second into the window the
\* numeral of the count-up to 1,234 is strictly between 0 and the target.
C12_Witness ==
    /\ rt = Tenths(3) + Secs(1)
    /\ rclip.kind = "countup"
    /\ rclip.number = MaxCount
    /\ rframe.numeral.drawn
    /\ rframe.numeral.value > 0
    /\ rframe.numeral.value < rclip.number

(***************************************************************************)
(* Properties of the fades the clip builders wrap their clips in.          *)
(***************************************************************************)

\* C16 as claimed: every clip the builders return has a 0.3-second fade-in and
\* a fade-out, of 1.0 second for the outro and of 0.5 seconds for the others.
C16_EveryClipFadesInAndOut ==
    \A i \in 1..Len(clips) :
        /\ clips[i].fadein = Tenths(3)
        /\ clips[i].fadeout = IF clips[i].kind = "outro" THEN Tenths(10)
                                                          ELSE Tenths(5)

(***************************************************************************)
(* Properties of the frames of the other clips.                            *)
(***************************************************************************)

\* C13: in the bar-chart clip of a record whose twelve monthly values are all
\* 0 (the month mapping may be empty), every frame is rendered (no division
\* by zero) and every bar drawn on it has height 0.
C13_FlatChartHasZeroBars ==
    ( /\ rclip.kind = "chart"
      /\ rt # NotRequested
      /\ \A m \in DOMAIN rclip.stats.commits_by_month :
             rclip.stats.commits_by_month[m] = 0 ) =>
        /\ rframe.kind = "chart"
        /\ Len(rframe.bars) = 12
        /\ \A k \in 1..12 : rframe.bars[k].drawn => rframe.bars[k].height = 0

\* The last frame of the chart of a record with an empty month mapping: all
\* twelve bars are drawn, flat.
C13_Witness ==
    /\ rclip.kind = "chart"
    /\ DOMAIN rclip.stats.commits_by_month = {}
    /\ rt = Secs(7) - 1
    /\ rframe.kind = "chart"
    /\ \A k \in 1..12 : rframe.bars[k].drawn /\ rframe.bars[k].height = 0

\* C14 as claimed: once a bar's growth is complete (1.0 s after its start at
\* 0.5 + 0.15 i s), its height is value / max_value of the 720-pixel capacity
\* (in whole pixels): 720 for the month of the maximum, 0 for a value of 0.
C14_BarsProportional ==
    ( /\ rclip.kind = "chart"
      /\ rt # NotRequested
      /\ rclip.max_val > 0 ) =>
        \A k \in 1..12 :
            100 * rt >= FPS * (150 + (15 * (k - 1))) =>
                /\ rframe.bars[k].drawn
                /\ rframe.bars[k].height =
                       (rclip.values[k] * 720) \div rclip.max_val
                /\ rclip.values[k] = rclip.max_val => rframe.bars[k].height = 720
                /\ rclip.values[k] = 0 => rframe.bars[k].height = 0

\* C15: the leaderboard draws a row for each of the first min(n, 5)
\* contributors of the record and for no other rank, row k showing the k-th
\* contributor of the record as given; once the last reveal has started all
\* min(n, 5) rows are on the frame.
C15_LeaderboardRows ==
    ( rclip.kind = "leaderboard" /\ rt # NotRequested ) =>
        LET cs == rclip.stats.top_contributors
            m == IF Len(cs) < 5 THEN Len(cs) ELSE 5
        IN  /\ Len(rframe.rows) = m
            /\ \A k \in 1..m :
                   rframe.rows[k].drawn =>
                       /\ rframe.rows[k].name = cs[k].name
                       /\ rframe.rows[k].value = cs[k].commits
            /\ rt >= Secs(3) => \A k \in 1..m : rframe.rows[k].drawn

\* The last frame of the leaderboard of a record with three contributors:
\* three rows, in the record's order (which is sorted by nothing).
C15_Witness ==
    /\ rclip.kind = "leaderboard"
    /\ Len(rclip.stats.top_contributors) = 3
    /\ rt = Secs(7) - 1
    /\ Len(rframe.rows) = 3
    /\ rframe.rows[1].drawn /\ rframe.rows[1].text = "1st  mia"
    /\ rframe.rows[2].drawn /\ rframe.rows[2].text = "2nd  adam"
    /\ rframe.rows[3].drawn /\ rframe.rows[3].text = "3rd  zoe"

\* The instant t (in ticks) is later than n hundredths of a second.
After(t, n) == 100 * t > FPS * n

\* The reveal elements of a frame, each with its activation offset in
\* hundredths of a second.
Reveals(clip, frame) ==
    CASE frame.kind = "countup" ->
           << << frame.numeral, 30 >> >>
           \o (IF clip.subtitle # "" THEN << << frame.subtitle, 250 >> >> ELSE <<>>)
      [] frame.kind = "intro" ->
           << << frame.name, 100 >>, << frame.wrapped, 150 >> >>
      [] frame.kind = "leaderboard" ->
           [ k \in 1..Len(frame.rows) |-> << frame.rows[k], 80 + (50 * (k - 1)) >> ]
      [] frame.kind = "times" ->
           [ k \in 1..Len(frame.items) |->
               << frame.items[k], << 50, 120, 190, 260 >>[k] >> ]
      [] frame.kind = "lines" ->
           << << frame.added, 50 >>, << frame.deleted, 150 >>, << frame.net, 300 >> >>
      [] frame.kind = "chart" ->
           [ k \in 1..Len(frame.bars) |-> << frame.bars[k], 50 + (15 * (k - 1)) >> ]
      [] frame.kind = "outro" ->
           << << frame.wrap, 30 >>, << frame.year, 80 >>, << frame.footer, 350 >> >>
           \o [ k \in 1..Len(frame.stats) |->
                  << frame.stats[k], 180 + (40 * (k - 1)) >> ]
      [] frame.kind = "none" -> <<>>

\* C17: every reveal element of every clip type is drawn on a frame exactly
\* when the frame's instant is after the element's activation offset, and an
\* element drawn on a frame is drawn on every later frame.
C17_RevealGating ==
    /\ [] ( rt # NotRequested =>
              \A e \in 1..Len(Reveals(rclip, rframe)) :
                  Reveals(rclip, rframe)[e][1].drawn
                      <=> After(rt, Reveals(rclip, rframe)[e][2]) )
    /\ [][ ( rt # NotRequested /\ rt' >= rt ) =>
              \A e \in 1..Len(Reveals(rclip, rframe)) :
                  Reveals(rclip, rframe)[e][1].drawn
                      => Reveals(rclip', rframe')[e][1].drawn ]_vars

\* The frame at exactly t = 1.3 s of a leaderboard of three: the first row is
\* on the frame, the second (offset 1.3 s) and the third are not yet.
C17_Witness ==
    /\ rclip.kind = "leaderboard"
    /\ rt = Tenths(13)
    /\ Len(rframe.rows) = 3
    /\ rframe.rows[1].drawn
    /\ ~rframe.rows[2].drawn
    /\ ~rframe.rows[3].drawn

\* C18 as claimed: on a frame of the intro the repository name is drawn only
\* if the year has finished its scale-up (its size has reached 200), and the
\* "WRAPPED" label only if the repository name is drawn.
C18_NameAfterYearSettles ==
    ( rframe.kind = "intro" ) =>
        /\ rframe.year.drawn
        /\ rframe.name.drawn => rframe.year.value = 120 + 80
        /\ rframe.wrapped.drawn => rframe.name.drawn

\* C20: the net change of the lines-of-code clip is written with a leading
\* "+" in the positive colour when it is 0 or more, and with its minus sign
\* in the negative colour when it is below 0.
C20_NetChangeSign ==
    ( rframe.kind = "lines" /\ rframe.net.drawn ) =>
        LET net == rclip.stats.lines_added - rclip.stats.lines_deleted IN
        /\ rframe.net.value = net
        /\ net >= 0 => /\ rframe.net.text = "+" \o FormatThousands(net)
                       /\ rframe.net.color = << 29, 185, 84 >>
        /\ net < 0 => /\ rframe.net.text = "-" \o FormatThousands(0 - net)
                      /\ rframe.net.color = << 231, 76, 60 >>
        /\ net = 0 => rframe.net.text = "+0"
        /\ net = 0 - 1177 => rframe.net.text = "-1,177"

\* A net change of exactly 0 (57 lines added, 57 deleted) is written "+0" in
\* the positive colour.
C20_Witness ==
    /\ rframe.kind = "lines"
    /\ rclip.stats.lines_added = 57
    /\ rclip.stats.lines_deleted = 57
    /\ rframe.net.drawn
    /\ rframe.net.text = "+0"
    /\ rframe.net.color = << 29, 185, 84 >>

(***************************************************************************)
(* Properties of the easing functions.                                     *)
(***************************************************************************)

\* C19: ease_out_cubic(0) = 0 and ease_out_cubic(1) = 1; ease_out_elastic
\* returns its argument at t = 0 and at t = 1 (0 and 1 exactly) without
\* evaluating the elastic formula there.
C19_EasingFixesBoundaries ==
    /\ ( ease_ret.fn = "ease_out_cubic" /\ ease_t.num = 0 ) => ease_ret.num = 0
    /\ ( ease_ret.fn = "ease_out_cubic" /\ ease_t.num = ease_t.den ) =>
           ease_ret.num = ease_ret.den
    /\ ( ease_ret.fn = "ease_out_elastic" /\ ease_t.num = 0 ) =>
           /\ ease_ret.value.branch = "boundary"
           /\ ease_ret.value.num = 0
    /\ ( ease_ret.fn = "ease_out_elastic" /\ ease_t.num = ease_t.den ) =>
           /\ ease_ret.value.branch = "boundary"
           /\ ease_ret.value.num = ease_ret.value.den

\* ease_out_elastic was called with t = 1 and returned 1 from the boundary
\* case.
C19_Witness ==
    /\ ease_ret.fn = "ease_out_elastic"
    /\ ease_t.num = ease_t.den
    /\ ease_t.den = Tenths(6)
    /\ ease_ret.value.branch = "boundary"
    /\ ease_ret.value.num = ease_ret.value.den

(***************************************************************************)
(* The subtitle of a count-up clip (lines 314-338).                        *)
(***************************************************************************)
\* C25: in a count-up clip the subtitle is never on a frame before the
\* count-up has completed: on every frame that shows the subtitle the numeral
\* is drawn and is the target, and an empty subtitle is on no frame.
C25_SubtitleAfterCountup ==
    (rt # NotRequested /\ rclip.kind = "countup") =>
        /\ rframe.subtitle.drawn =>
             /\ rclip.subtitle # ""
             /\ rframe.subtitle.text = rclip.subtitle
             /\ rframe.numeral.drawn
             /\ rframe.numeral.value = rclip.number
             /\ CountProgress(rt) = Secs(2)
        /\ rclip.subtitle = "" => ~ rframe.subtitle.drawn

\* The first frame with the subtitle (t = 2.5 s + 1/30) of the count-up to
\* 1,234.
C25_Witness ==
    /\ rclip.kind = "countup"
    /\ rt = Tenths(25) + 1
    /\ rclip.number = MaxCount
    /\ rclip.subtitle # ""
    /\ rframe.subtitle.drawn
    /\ rframe.numeral.drawn
    /\ rframe.numeral.value = MaxCount

(***************************************************************************)
(* The value labels of the bar chart (lines 585-613).                      *)
(***************************************************************************)
\* C24 as claimed: on every frame of the bar-chart clip, the value label of a
\* bar is drawn if and only if the bar's growth progress at that instant,
\* min((t - bar_start) / 1.0, 1.0), exceeds 80%; a bar at or below 80% has no
\* label.
C24_LabelIffPast80Percent ==
    (rclip.kind = "chart" /\ rt # NotRequested) =>
        \A k \in 1..12 :
            ( rframe.bars[k].drawn /\ rframe.bars[k].label.drawn )
                <=> 10 * BarProgress(rt, k - 1) > 8 * 2 * Secs(1)

(***************************************************************************)
(* The reveal windows against the clip's duration and fade-out.            *)
(***************************************************************************)
\* The default duration of each builder, in seconds.
BuilderSeconds(kind) ==
    CASE kind \in {"intro", "countup"} -> 5
      [] kind \in {"times", "lines", "outro"} -> 6
      [] kind \in {"leaderboard", "chart"} -> 7

\* C26: for every clip type and every statistics record, every reveal element
\* has completed its animation (its offset plus its length has passed) before
\* the clip's fade-out begins, so that every frame of the fade-out shows each
\* element in its final state; and the clip's duration is the constant of its
\* type, whatever the record holds.
C26_RevealsCompleteBeforeFadeOut ==
    (rt # NotRequested) =>
        LET ws == RevealWindows(rclip) IN
        /\ rclip.duration = Secs(BuilderSeconds(rclip.kind))
        /\ \A c \in FrameClips : c.kind = rclip.kind => c.duration = rclip.duration
        /\ \A k \in 1..Len(ws) :
             /\ ws[k].start + ws[k].length < 2 * FadeOutStart(rclip)
             /\ rt >= FadeOutStart(rclip) =>
                  RevealProgress(ws[k], rt) = ws[k].length
        /\ rt >= FadeOutStart(rclip) =>
             \A k \in 1..Len(Reveals(rclip, rframe)) :
                 Reveals(rclip, rframe)[k][1].drawn

\* The frame at which the leaderboard's fade-out begins (t = 6.5 s), with five
\* rows on it, the last of which completed its slide-in at 3.2 s.
C26_Witness ==
    /\ rclip.kind = "leaderboard"
    /\ Len(rclip.contributors) = 5
    /\ rt = Secs(7) - Tenths(5)
    /\ rt = FadeOutStart(rclip)
    /\ rframe.rows[5].drawn
    /\ RevealProgress(RevealWindows(rclip)[5], rt) = 2 * Tenths(4)
    /\ RevealProgress(RevealWindows(rclip)[5], Secs(3)) < 2 * Tenths(4)

(***************************************************************************)
(* make_frame as a function of the record and t (lines 294-300, 547-559).  *)
(***************************************************************************)
\* Every gradient array is as _create_gradient_frame returned it, and the last
\* frame rendered is what make_frame draws over the clean gradient for the
\* clip's closed-over record and t.
FrameIsPure ==
    /\ rt # NotRequested => rframe = MakeFrame(rclip, rt)
    /\ \A c \in DOMAIN gradient : gradient[c] = Clean
    /\ rclip \in TimelineClips
    /\ stats = SampleStats

\* C27: the frame a clip renders at t depends only on the statistics record
\* and t.  Whatever frames were requested before, of this clip or of another,
\* in whatever order, the frame is the one make_frame draws over the clean
\* gradient; asking for the same frame of the same clip again returns the
\* identical frame; and no request changes a gradient array or the
\* statistics record.
C27_FrameDependsOnRecordAndTimeOnly ==
    /\ []FrameIsPure
    /\ [][ /\ (rt # NotRequested /\ rt' = rt /\ rclip' = rclip) => rframe' = rframe
           /\ gradient' = gradient
           /\ stats' = stats ]_vars

\* The chart's first frame, which the encoder can request after any other
\* frame of the chart (every frame of a clip is one request away from every
\* other): it shows the title alone, no bar of a later frame.
C27_Witness ==
    /\ rclip.kind = "chart"
    /\ rt = 0
    /\ rframe = MakeFrameChart(rclip, 0)
    /\ \A k \in 1..12 : ~ rframe.bars[k].drawn
    /\ gradient[rclip] = Clean

(***************************************************************************)
(* Dropped narration entries and the running offset (lines 144-153).       *)
(***************************************************************************)
\* The start offsets the narrations have when every entry loads: entry j (from
\* 0) starts 0.5 s after the j clips before it.
StartWhenAllLoad(j) == SumDurations(SubSeq(clips, 1, j)) + NarrationLeadIn

\* C28: a narration entry that is empty, missing or fails to load does not
\* shift a later narration.  After any number of entries, dropped or loaded,
\* the running offset is the sum of the durations of the clips visited, and a
\* narration loaded for position j starts where it starts when no entry
\* before it is dropped.
C28_DroppedEntryShiftsNothing ==
    /\ pc \in {"narration", "music", "combine", "write", "done", "failed"} =>
          current_time = SumDurations(SubSeq(clips, 1, Len(audio_paths)))
    /\ \A k \in 1..Len(audio_clips) :
          LET c == audio_clips[k] IN
          ( /\ c.kind = "narration"
            /\ \E i \in 1..c.pos : audio_paths[i] # "ok" )
          => c.start = StartWhenAllLoad(c.pos)

\* The third entry is loaded after an empty first and an undecodable second,
\* and the fourth is empty: the narration starts at 10.5 s, and the offset
\* after the four entries is 22 s.
C28_Witness ==
    /\ pc = "narration"
    /\ Len(audio_paths) = 4
    /\ audio_paths[1] = "absent"
    /\ audio_paths[2] = "corrupt"
    /\ audio_paths[3] = "ok"
    /\ audio_paths[4] = "absent"
    /\ Len(audio_clips) = 1
    /\ audio_clips[1].pos = 2
    /\ audio_clips[1].start = Secs(10) + Tenths(5)
    /\ current_time = Secs(22)

(***************************************************************************)
(* Ducking against the narration paths supplied (lines 144-175).           *)
(***************************************************************************)
\* C29: the duck is decided by the narrations that loaded, not by the paths
\* supplied.  The music track's gain is 30% when narration paths were given
\* and every one of them was empty, missing or undecodable, and 15% when at
\* least one of them was loaded.
C29_DuckingByLoadedNarrations ==
    \A k \in 1..Len(audio_clips) :
        ( audio_clips[k].kind = "music" /\ audio_paths # <<>> ) =>
            /\ (\A i \in 1..Len(audio_paths) : audio_paths[i] # "ok")
                   => audio_clips[k].gain = 30
            /\ (\E i \in 1..Len(audio_paths) : audio_paths[i] = "ok")
                   => audio_clips[k].gain = 15

\* Nine narration paths were supplied, none was loaded (the first is missing,
\* the second undecodable), and the music is the only track, at 30%.
C29_Witness ==
    /\ pc = "done"
    /\ Len(audio_paths) = 9
    /\ audio_paths[1] = "absent"
    /\ audio_paths[2] = "corrupt"
    /\ \A i \in 1..9 : audio_paths[i] # "ok"
    /\ Len(audio_clips) = 1
    /\ audio_clips[1].kind = "music"
    /\ audio_clips[1].gain = 30

(***************************************************************************)
(* The number of repetitions of a short music track (lines 159-164).       *)
(***************************************************************************)
\* C23 as claimed: when the music is shorter than the video, the number n of
\* whole-track repetitions (loops_needed, line 161) is the smallest n with
\* n * music duration >= video duration: n repetitions reach the video's
\* length and n - 1 do not.
C23_SmallestRepetitionCount ==
    ( /\ AfterMusic
      /\ MusicLoaded
      /\ music_path.duration < final_video.duration ) =>
        LET n == LoopsNeeded(final_video.duration, music_path.duration) IN
        /\ n * music_path.duration >= final_video.duration
        /\ (n - 1) * music_path.duration < final_video.duration

(***************************************************************************)
(* The list generate_audio_for_slides returns (audio_generator.py 16-51).  *)
(***************************************************************************)
\* C30: with a narration client configured, generate_audio_for_slides returns
\* one entry per slide, in slide order: the entry at position i is the audio
\* file of slide i, or the empty string when the synthesis for slide i failed,
\* so that a failure never moves a later slide's narration to another
\* position.  Without a client it returns the empty list.
C30_OneEntryPerSlide ==
    gpc = "audio_returned" =>
        IF opts.client
        THEN /\ Len(synth) = Len(slides)
             /\ Len(slides) = 9
             /\ \A i \in 1..Len(synth) :
                    /\ tts[i] = "error" => synth[i] = ""
                    /\ tts[i] = "ok" => synth[i] = AudioPath(i - 1)
        ELSE synth = <<>>

\* The synthesis failed for the second slide alone: the list returned has nine
\* entries, the second empty and the third the file audio_02.mp3.
C30_Witness ==
    /\ gpc = "audio_returned"
    /\ opts.client
    /\ Len(synth) = 9
    /\ tts[1] = "ok"
    /\ tts[2] = "error"
    /\ \A i \in 3..9 : tts[i] = "ok"
    /\ synth[1] = "output/temp/audio_00.mp3"
    /\ synth[2] = ""
    /\ synth[3] = "output/temp/audio_02.mp3"
    /\ synth[9] = "output/temp/audio_08.mp3"

(***************************************************************************)
(* The clip durations of the static pipeline (video_generator.py 33-59).   *)
(***************************************************************************)
\* C22 as claimed: in create_video, the image clip of a slide whose narration
\* was loaded and is longer than the slide lasts exactly as long as the
\* narration; the clip of any other slide (narration not longer, empty,
\* missing or undecodable) keeps the slide's duration; and the video lasts the
\* sum of the clips' durations.
C22_ClipMatchesLongerAudio ==
    /\ \A i \in 1..Len(clips) :
          clips[i].kind = "image" =>
              clips[i].duration =
                  IF audio_paths[i] = "ok" /\ Secs(narr_secs) > slides[i].duration
                  THEN Secs(narr_secs)
                  ELSE slides[i].duration
    /\ (gpc = "create_video" /\ final_video # NoVideo) =>
          final_video.duration = SumDurations(clips)

(***************************************************************************)
(* The order of the steps of the generate command (main.py 91-166).        *)
(***************************************************************************)
\* The steps that build slides or clips.
RenderingSteps == {"slides", "build_clips", "gif_clips"}

\* The steps that write an output file.
EncodeSteps == {"encode", "gif_encode"}

\* Statistics collection completes before any other step, and narration
\* synthesis, when enabled, before the audio is composed.
CollectAndSynthesisFirst ==
    /\ \A i \in 1..Len(events) :
          events[i] # "collect" =>
              /\ events[1] = "collect"
              /\ stats # NoStats
    /\ \A i \in 1..Len(events) :
          (events[i] \in RenderingSteps \cup {"compose_audio"} \cup EncodeSteps) =>
              stats = SampleStats
    /\ \A i \in 1..Len(events) :
          (events[i] = "compose_audio" /\ ~ opts.no_audio) =>
              \E j \in 1..(i - 1) : events[j] = "synthesize"

\* C21 as claimed: statistics collection completes before any slide or clip is
\* built, narration synthesis (when enabled) completes before the audio
\* composition starts, and the encode of the video is the last step: no step
\* completes after it.
C21_EncodeIsLastStep ==
    /\ CollectAndSynthesisFirst
    /\ \A i \in 1..Len(events) : events[i] = "encode" => i = Len(events)

\* C21, amended: statistics collection completes before any slide or clip is
\* built, and narration synthesis (when enabled) before the audio composition
\* starts.  The encode of the video is the last step of the run, except with
\* --static --gif, where the clips of the GIF preview are built and encoded
\* after it; a completed run always ends with an encode.
C21_EncodeThenOnlyGifPreview ==
    /\ CollectAndSynthesisFirst
    /\ \A i \in 1..Len(events) :
          events[i] = "encode" =>
              /\ \A j \in 1..(i - 1) : events[j] \notin EncodeSteps
              /\ \A j \in (i + 1)..Len(events) :
                     /\ events[j] \in {"gif_clips", "gif_encode"}
                     /\ opts.static
                     /\ opts.gif
    /\ gpc = "done" =>
          /\ events[Len(events)] \in EncodeSteps
          /\ events[Len(events)] = "gif_encode" <=> (opts.static /\ opts.gif)

\* A completed run of the static pipeline with narration and --gif: the
\* statistics first, the narration before the audio is attached, the video
\* encoded, and then the GIF preview built and encoded.
C21_Witness ==
    /\ gpc = "done"
    /\ opts.static
    /\ opts.gif
    /\ ~ opts.no_audio
    /\ opts.client
    /\ opts.music = "none"
    /\ synth # <<>>
    /\ stats = SampleStats
    /\ events = << "collect", "slides", "synthesize", "build_clips",
                   "compose_audio", "encode", "gif_clips", "gif_encode" >>

====
